---- MODULE Spec2Model ----
(***************************************************************************)
(* State-machine model of the SavingGrace request handlers over the        *)
(* single-table key-value store: inventory adjustment, donation and        *)
(* distribution life cycle, list queries and the pagination-token codec.   *)
(* Every handler is one action; store records are keyed as in the code.    *)
(* Numbers stand for the numeric values of the requests, small integers    *)
(* for ISO timestamps (ordered as the strings are), tuples of characters   *)
(* for strings that the code measures or trims.                            *)
(***************************************************************************)
EXTENDS Integers, Sequences, FiniteSets, TLC

\* ------------------------------------------------------------------ bounds
MaxClock == 2        \* readings of datetime.utcnow() that are told apart
MaxItems == 2        \* inventory items that may be created
MaxQty == 2          \* largest stored inventory quantity explored
MaxChange == 1       \* largest |quantity_change| of a request
MaxDonations == 1    \* donations that may be created
MaxDonationItems == 2 \* line items of one create_donation request
MaxItemQty == 1      \* largest quantity of a donation line item
MaxListed == 2       \* donations that may be created for the donation listing
MaxDonors == 1       \* donor profiles that may be created
MaxRecipients == 1   \* recipient profiles that may be created
MaxDate == 2         \* distribution dates and date bounds of a listing

\* --------------------------------------------------------------- constants
MAX_ITEM_NAME == 200

NULL == "NULL"

Min(a, b) == IF a <= b THEN a ELSE b
Max(a, b) == IF a >= b THEN a ELSE b

\* ------------------------------------------------------------------- auth
ROLE_HIERARCHY ==
  [r \in {"Admin", "DonorCoordinator", "DistributionManager", "Volunteer", "ReadOnly"} |->
     CASE r = "Admin" -> 5
       [] r = "DonorCoordinator" -> 4
       [] r = "DistributionManager" -> 3
       [] r = "Volunteer" -> 2
       [] r = "ReadOnly" -> 1]

ROLE_PERMISSIONS ==
  [r \in {"Admin", "DonorCoordinator", "DistributionManager", "Volunteer", "ReadOnly"} |->
     CASE r = "Admin" ->
            {"users:create", "users:read", "users:update", "users:delete", "donors:*",
             "donations:*", "recipients:*", "distributions:*", "inventory:*", "reports:*"}
       [] r = "DonorCoordinator" ->
            {"donors:create", "donors:read", "donors:update", "donations:create",
             "donations:read", "donations:update", "inventory:read", "inventory:adjust",
             "reports:read"}
       [] r = "DistributionManager" ->
            {"recipients:create", "recipients:read", "recipients:update",
             "distributions:create", "distributions:read", "distributions:update",
             "distributions:complete", "inventory:read", "inventory:adjust", "reports:read"}
       [] r = "Volunteer" ->
            {"donors:read", "donations:read", "recipients:read", "distributions:read",
             "distributions:complete", "inventory:read", "reports:read"}
       [] r = "ReadOnly" ->
            {"donors:read", "donations:read", "recipients:read", "distributions:read",
             "inventory:read", "reports:read"}]

\* ROLE_HIERARCHY.get(role, 0)
RoleLevel(role) == IF role \in DOMAIN ROLE_HIERARCHY THEN ROLE_HIERARCHY[role] ELSE 0

has_role(user_role, required_role) == RoleLevel(user_role) >= RoleLevel(required_role)

\* permission is given as <<resource, action>>; the wildcard is resource:*
PermName(resource, action) ==
  CASE resource = "inventory" /\ action = "adjust" -> "inventory:adjust"
    [] resource = "inventory" /\ action = "*" -> "inventory:*"
    [] resource = "distributions" /\ action = "create" -> "distributions:create"
    [] resource = "distributions" /\ action = "update" -> "distributions:update"
    [] resource = "distributions" /\ action = "complete" -> "distributions:complete"
    [] resource = "distributions" /\ action = "*" -> "distributions:*"
    [] resource = "donations" /\ action = "create" -> "donations:create"
    [] resource = "donations" /\ action = "*" -> "donations:*"
    [] OTHER -> "none"

has_permission(user_role, resource, action) ==
  IF user_role \notin DOMAIN ROLE_PERMISSIONS THEN FALSE
  ELSE \/ PermName(resource, action) \in ROLE_PERMISSIONS[user_role]
       \/ PermName(resource, "*") \in ROLE_PERMISSIONS[user_role]

\* A caller is the authorizer context of the event: claims present or not, and
\* the custom:role claim.
CallerRoles == {"Admin", "DonorCoordinator", "DistributionManager", "Volunteer",
                "ReadOnly", "Guest"}
\* the claims get_user_from_event reads: the role and the user id ("sub")
User(role) == [claims |-> TRUE, role |-> role, sub |-> "u1"]
Callers == {[claims |-> FALSE, role |-> "ReadOnly", sub |-> "u1"]} \cup
           {User(r) : r \in CallerRoles}

\* ---------------------------------------------------------------- strings
\* A string is a tuple of characters; " " is the only whitespace used.
RECURSIVE LStrip(_)
LStrip(s) == IF s # <<>> /\ Head(s) = " " THEN LStrip(Tail(s)) ELSE s

RECURSIVE RStrip(_)
RStrip(s) == IF s # <<>> /\ s[Len(s)] = " " THEN RStrip(SubSeq(s, 1, Len(s) - 1)) ELSE s

Strip(s) == RStrip(LStrip(s))

\* Validator.validate_string; min_length / max_length of 0 stand for None
validate_string(value, min_length, max_length) ==
  IF min_length # 0 /\ Len(value) < min_length THEN [ok |-> FALSE, value |-> <<>>]
  ELSE IF max_length # 0 /\ Len(value) > max_length THEN [ok |-> FALSE, value |-> <<>>]
  ELSE [ok |-> TRUE, value |-> Strip(value)]

\* Validator.validate_number; hasMin = FALSE stands for min_value None
validate_number(value, hasMin, min_value) ==
  IF hasMin /\ value < min_value THEN [ok |-> FALSE, value |-> 0]
  ELSE [ok |-> TRUE, value |-> value]

\* the characters of the e-mail inputs: letters, characters the pattern admits
\* beside them, and characters it does not admit
IsLetter(c) == c \in {"a", "b", "c", "A", "B", "C"}
LocalChar(c) == IsLetter(c) \/ c \in {"0", ".", "_", "%", "+", "-"}
DomainChar(c) == IsLetter(c) \/ c \in {"0", ".", "-"}

\* EMAIL_PATTERN.match: local part, "@", domain, ".", two or more letters
EmailMatches(s) ==
  \E at \in 1 .. Len(s), dot \in 1 .. Len(s) :
    /\ s[at] = "@"
    /\ at >= 2
    /\ \A i \in 1 .. at - 1 : LocalChar(s[i])
    /\ dot - at >= 2
    /\ \A i \in at + 1 .. dot - 1 : DomainChar(s[i])
    /\ s[dot] = "."
    /\ Len(s) - dot >= 2
    /\ \A i \in dot + 1 .. Len(s) : IsLetter(s[i])

\* str.lower() on the characters of the inputs
LowerChar(c) ==
  CASE c = "A" -> "a" [] c = "B" -> "b" [] c = "C" -> "c" [] OTHER -> c

Lower(s) == [i \in 1 .. Len(s) |-> LowerChar(s[i])]

\* the e-mail is returned as it was given
validate_email_AsGiven(email) ==
  IF email = <<>> \/ ~EmailMatches(email) THEN [ok |-> FALSE, value |-> <<>>]
  ELSE [ok |-> TRUE, value |-> email]

\* Validator.validate_email
validate_email(email) ==
  IF email = <<>> \/ ~EmailMatches(email) THEN [ok |-> FALSE, value |-> <<>>]
  ELSE [ok |-> TRUE, value |-> Lower(email)]

\* the attributes a handler removes from an item before it answers with it
INTERNAL_KEYS == {"PK", "SK", "GSI1PK", "GSI1SK"}

PublicFields(item) == [k \in (DOMAIN item) \ INTERNAL_KEYS |-> item[k]]

\* whether the table rejects the put of an item: an empty string in an
\* attribute that is a key of one of the table's indexes is refused with a
\* ClientError, and whether GSI1SK is such a key is the table's layout
EmptyKeyChoices(key_value) == IF key_value = <<>> THEN BOOLEAN ELSE {FALSE}

\* a number as the response body carries it: json.dumps writes a Python int as
\* an integer literal, and DecimalEncoder writes the Decimal the store returns
\* as float(obj)
JsonInt(n) == [v |-> n, float |-> FALSE]
DecimalEncoder(n) == [v |-> n, float |-> TRUE]

\* ------------------------------------------------------------------ state
VARIABLES
  clock,        \* latest reading of datetime.utcnow()
  inventory,    \* INVENTORY#<category> / ITEM#<item_id> records
  audit,        \* keys of the AUDIT#INVENTORY#<item_id> / ADJUSTMENT#<now> records
  donations,    \* DONATION#<id> / METADATA records, by donation id
  donationItems,\* DONATION#<id> / ITEM#<index> records, by <<donation id, sort key>>
  distributions,\* DISTRIBUTION#<id> / METADATA records, by distribution id
  mirrors,      \* DISTRIBUTION#<id> / RECIPIENT#<recipient> records
  donors,       \* DONOR#<id> / PROFILE records, by donor id
  recipients,   \* RECIPIENT#<id> / PROFILE records, by recipient id
  users,        \* USER#<sub> / PROFILE records, by sub
  cognito,      \* the users of the Cognito user pool, by Username
  stamps,       \* created_at and updated_at of every stored item, by item key
  warm,         \* whether an invocation runs in the process of the one before it
  context,      \* logger.context in the process of each function
  inflight,     \* the requests being handled step by step: position and locals
  last,         \* the request handled last
  resp,         \* its response
  ops           \* the store operations it issued, in order

invVars == <<inventory, audit>>
donVars == <<donations, donationItems>>
distVars == <<distributions, mirrors>>
userVars == <<users, cognito>>
dirVars == <<donors, recipients, userVars>>
procVars == <<warm, context, inflight>>
vars == <<clock, inventory, audit, donations, donationItems, distributions, mirrors,
          donors, recipients, users, cognito, stamps, warm, context, inflight, last, resp,
          ops>>

\* responses
Success(status, data) == [status |-> status, code |-> "OK", raised |-> FALSE, data |-> data]
ErrorResp(status, code) == [status |-> status, code |-> code, raised |-> FALSE, data |-> NULL]
\* an exception that leaves the handler uncaught
Raised(code) == [status |-> 0, code |-> code, raised |-> TRUE, data |-> NULL]

\* datetime.utcnow(): the clock never runs backwards
Nows == {t \in {clock, clock + 1} : t <= MaxClock}

\* the number of requests handled concurrently, one store operation at a time
MaxRequests == 2

Requests == 1 .. MaxRequests

\* a request that has not arrived
Idle == [op |-> "none", pc |-> "idle"]

\* the functions whose handler calls logger.set_context; each function has a
\* process and a module-level logger of its own
LoggingModules ==
  {"create_distribution", "update_distribution", "complete_distribution",
   "list_distributions"}

\* StructuredLogger.__init__: the user fields of logger.context when the
\* process starts (service, version and environment never change)
ProcessStart == [user_id |-> NULL, user_role |-> NULL]

\* logger.set_context(user_id=..., user_role=...) of a handler that was entered
\* (the role check let the caller pass): the context stays in the module-level
\* logger, which the next invocation in the same process finds; an invocation
\* in a new process finds the context of the process start
set_context(module, caller, entered) ==
  /\ warm' = warm
  /\ context' = IF warm /\ entered
                THEN [context EXCEPT ![module] = [user_id |-> caller.sub,
                                                  user_role |-> caller.role]]
                ELSE context

\* the context fields _log merges into the first log line of an invocation,
\* which the handler writes before it calls set_context
FirstLogLine(module) == context[module]

InitStore ==
  /\ clock = 1
  /\ inventory = {}
  /\ audit = {}
  /\ donations = <<>>
  /\ donationItems = <<>>
  /\ distributions = <<>>
  /\ mirrors = <<>>
  /\ donors = <<>>
  /\ recipients = <<>>
  /\ users = <<>>
  /\ cognito = <<>>
  /\ stamps = <<>>
  /\ last = [op |-> "none"]
  /\ resp = Success(200, NULL)
  /\ ops = <<>>
  /\ context = [m \in LoggingModules |-> ProcessStart]
  /\ inflight = [r \in Requests |-> Idle]

\* every invocation runs in a new process
Init == InitStore /\ warm = FALSE

\* every invocation of a function runs in the process of the one before it
InitWarm == InitStore /\ warm = TRUE

\* ------------------------------------------------------------- timestamps
\* The key of an item: the kind of its partition, the id in the partition key
\* and a number for the sort key (0 for METADATA and PROFILE, the recipient
\* for a RECIPIENT#<recipient> record, one more than the index for an
\* ITEM#<index> record, the timestamp for an ADJUSTMENT#<timestamp> record).
ItemKey(kind, id, sort) == <<kind, id, sort>>

\* A created_at of 0 stands for an item without the attribute.
\* DynamoDBHelper.put_item: created_at is the one the item dict carries (0:
\* it carries none) or else the time of the put, updated_at the time of the
\* put; the stored item is replaced
put_item(st, k, created_at, now) ==
  [x \in (DOMAIN st) \cup {k} |->
     IF x = k THEN [created_at |-> IF created_at # 0 THEN created_at ELSE now,
                    updated_at |-> now]
     ELSE st[x]]

\* DynamoDBHelper.update_item: SET of the attributes given and of updated_at;
\* an item that is not stored is created with these attributes alone
update_item(st, k, now) ==
  [x \in (DOMAIN st) \cup {k} |->
     IF x = k THEN [created_at |-> IF k \in DOMAIN st THEN st[k].created_at ELSE 0,
                    updated_at |-> now]
     ELSE st[x]]

\* -------------------------------------------------------- adjust_inventory
VALID_CATEGORIES == {"produce", "dairy", "protein", "grains", "canned", "frozen",
                     "beverages", "other"}

CategoryInputs == {"canned", "dairy", "produce", "bogus"}
NameInputs == {<<>>, <<"a">>, <<" ", "a">>}
BodyFaults == {"none", "bad_json", "missing_field", "bad_reason", "bad_optional"}

AdjustDefault ==
  [category |-> "canned", item_name |-> <<"a">>, quantity_change |-> 1,
   expiration |-> 0, fault |-> "none"]

AdjustBodies ==
  [category : CategoryInputs, item_name : NameInputs,
   quantity_change : (0 - MaxChange) .. MaxChange, expiration : {0}, fault : {"none"}]
  \cup {[AdjustDefault EXCEPT !.fault = f] : f \in BodyFaults}
  \cup {[AdjustDefault EXCEPT !.expiration = 1]}

\* db.query(Key("PK").eq("INVENTORY#<category>"), Attr("name").eq(item_name))
ExistingItems(category, item_name) ==
  {i \in inventory : i.category = category /\ i.name = item_name}

\* existing_items[0]: the partition is read in sort-key order
FirstItem(S) == CHOOSE i \in S : \A j \in S : i.item_id <= j.item_id

\* uuid.uuid4(): an id no stored item has
FreshItemId == Cardinality(inventory) + 1

\* put_item of the audit entry: same PK and SK replaces
PutAudit(entry) ==
  {a \in audit : ~(a.item_id = entry.item_id /\ a.ts = entry.ts)} \cup {entry}

\* the adjustment applied without the floor at zero
AdjustedQuantity_NoClamp(current_quantity, quantity_change) ==
  current_quantity + quantity_change

\* quantity of the existing item after the adjustment (lines 121-126)
AdjustedQuantity(current_quantity, quantity_change) ==
  IF current_quantity + quantity_change < 0 THEN 0 ELSE current_quantity + quantity_change

\* the initial quantity taken from the request as it is
InitialQuantity_NoClamp(quantity_change) == quantity_change

\* quantity of a newly created item (line 165)
InitialQuantity(quantity_change) == Max(0, quantity_change)

adjust_inventory(caller, body, now) ==
  LET found == ExistingItems(body.category, Strip(body.item_name))
      req == [op |-> "adjust_inventory", caller |-> caller, body |-> body,
              existed |-> found # {},
              old_quantity |-> IF found # {} THEN FirstItem(found).quantity ELSE 0]
      name == validate_string(body.item_name, 1, MAX_ITEM_NAME)
      reject(r) == /\ resp' = r
                   /\ ops' = <<>>
                   /\ UNCHANGED <<clock, inventory, audit, stamps>>
  IN
  /\ last' = req
  /\ UNCHANGED procVars
  /\ UNCHANGED <<donVars, distVars, dirVars>>
  /\ IF ~caller.claims THEN reject(ErrorResp(403, "AUTHORIZATION_ERROR"))
     ELSE IF ~has_permission(caller.role, "inventory", "adjust")
       THEN reject(ErrorResp(403, "AUTHORIZATION_ERROR"))
     ELSE IF body.fault = "bad_json" THEN reject(ErrorResp(400, "VALIDATION_ERROR"))
     ELSE IF body.fault = "missing_field" THEN reject(ErrorResp(400, "VALIDATION_ERROR"))
     ELSE IF body.category \notin VALID_CATEGORIES
       THEN reject(ErrorResp(400, "VALIDATION_ERROR"))
     ELSE IF ~name.ok THEN reject(ErrorResp(400, "VALIDATION_ERROR"))
     ELSE IF body.fault \in {"bad_reason", "bad_optional"}
       THEN reject(ErrorResp(400, "VALIDATION_ERROR"))
     ELSE
       LET existing == ExistingItems(body.category, name.value) IN
       IF existing # {}
       THEN LET item == FirstItem(existing)
                new_quantity == AdjustedQuantity(item.quantity, body.quantity_change)
                updated == [item EXCEPT !.quantity = new_quantity]
            IN /\ new_quantity <= MaxQty
               /\ clock' = now
               /\ inventory' = (inventory \ {item}) \cup {updated}
               /\ audit' = PutAudit([item_id |-> item.item_id, ts |-> now])
               /\ stamps' = put_item(update_item(stamps, ItemKey("INVENTORY", item.item_id, 0),
                                                 now),
                                     ItemKey("AUDIT", item.item_id, now), 0, now)
               /\ ops' = <<"query", "update_item">>
                         \o (IF body.expiration # 0 THEN <<"update_item">> ELSE <<>>)
                         \o <<"put_item">>
               /\ resp' = Success(200, updated)
       ELSE LET new_item == [item_id |-> FreshItemId, category |-> body.category,
                             name |-> name.value,
                             quantity |-> InitialQuantity(body.quantity_change)]
            IN /\ Cardinality(inventory) < MaxItems
               /\ new_item.quantity <= MaxQty
               /\ clock' = now
               /\ inventory' = inventory \cup {new_item}
               /\ audit' = PutAudit([item_id |-> new_item.item_id, ts |-> now])
               /\ stamps' = put_item(put_item(stamps,
                                              ItemKey("INVENTORY", new_item.item_id, 0),
                                              now, now),
                                     ItemKey("AUDIT", new_item.item_id, now), 0, now)
               /\ ops' = <<"query", "put_item", "put_item">>
               /\ resp' = Success(200, new_item)

AdjustInventory ==
  \E caller \in Callers, body \in AdjustBodies, now \in Nows :
    /\ (body # AdjustDefault => caller = User("DonorCoordinator"))
    /\ adjust_inventory(caller, body, now)

NextInventory == AdjustInventory

SpecInventory == Init /\ [][NextInventory]_vars

\* ------------------------------------------------------------ store helpers
\* put_item / update_item on key k: the record at k is replaced or created
Put(table, k, v) == [x \in (DOMAIN table) \cup {k} |-> IF x = k THEN v ELSE table[x]]

\* a failed store write is answered as a success
DatabaseError_Swallowed == Success(200, NULL)

\* the envelope of a DatabaseError, which put_item and update_item raise when
\* the store refuses the write
DatabaseError == ErrorResp(500, "DATABASE_ERROR")

\* fail_at numbers the store write of an invocation that the store refuses
\* (0: none); the write numbered k of the invocation takes effect when no
\* write up to it is refused
Written(fail_at, k) == fail_at = 0 \/ k < fail_at

\* Validator.validate_date on a date input: 0 is an absent or empty value, a
\* negative number a string that is no ISO date, a positive number a timestamp
validate_date(value) == value > 0

\* the require_role decorator: the exception it raises is outside the handler's try
Gate(caller, required_role) ==
  IF ~caller.claims THEN "no_claims"
  ELSE IF ~has_role(caller.role, required_role) THEN "role"
  ELSE "pass"

\* --------------------------------------------------------- create_donation
ITEM_SK_WIDTH == 4
MAX_DONATION_ITEM_NAME == 200

RECURSIVE Digits(_)
Digits(n) == IF n < 10 THEN <<n>> ELSE Append(Digits(n \div 10), n % 10)

RECURSIVE PadLeft(_, _)
PadLeft(ds, width) == IF Len(ds) >= width THEN ds ELSE PadLeft(<<0>> \o ds, width)

\* f"ITEM#{idx:04d}"
ItemSK(idx) == PadLeft(Digits(idx), ITEM_SK_WIDTH)

DonationIds == 1 .. MaxDonations

\* uuid.uuid4(): an id of the pool that is not in use, 0 when the pool is used up
FreshId(pool, used) ==
  IF pool \ used = {} THEN 0
  ELSE CHOOSE d \in pool \ used : \A e \in pool \ used : d <= e

\* the per-item checks of validate_donation_items accept every item
ItemsAccepted_AnyQuantity(items) ==
  \A k \in 1 .. Len(items) :
    validate_string(items[k].name, 1, MAX_DONATION_ITEM_NAME).ok

\* the per-item checks of validate_donation_items (lines 47-71)
ItemsAccepted(items) ==
  \A k \in 1 .. Len(items) :
    /\ validate_string(items[k].name, 1, MAX_DONATION_ITEM_NAME).ok
    /\ validate_number(items[k].quantity, TRUE, 0).ok

validate_donation_items(items) == Len(items) # 0 /\ ItemsAccepted(items)

\* item records are numbered from one instead of zero
ItemIndex_FromOne(k) == k

\* enumerate(items): the index of the k-th item of the list
ItemIndex(k) == k - 1

RECURSIVE PutDonationItems(_, _, _, _)
PutDonationItems(table, donation_id, items, k) ==
  IF k > Len(items) THEN table
  ELSE PutDonationItems(
         Put(table, <<donation_id, ItemSK(ItemIndex(k))>>,
             [item_index |-> ItemIndex(k), name |-> items[k].name,
              quantity |-> items[k].quantity]),
         donation_id, items, k + 1)

\* the timestamps of the ITEM records put for the items k .. n of a donation
RECURSIVE StampDonationItems(_, _, _, _, _)
StampDonationItems(st, donation_id, k, n, now) ==
  IF k > n THEN st
  ELSE StampDonationItems(
         put_item(st, ItemKey("DONATION", donation_id, ItemIndex(k) + 1), now, now),
         donation_id, k + 1, n, now)

RECURSIVE Repeat(_, _)
Repeat(x, n) == IF n = 0 THEN <<>> ELSE <<x>> \o Repeat(x, n - 1)

create_donation(caller, body, now, donation_id) ==
  LET req == [op |-> "create_donation", caller |-> caller, body |-> body]
      donor == validate_string(body.donor_id, 1, 0)
      gate == Gate(caller, "DonorCoordinator")
      reject(r) == /\ resp' = r
                   /\ ops' = <<>>
                   /\ UNCHANGED <<clock, donVars, stamps>>
  IN
  /\ last' = req
  /\ UNCHANGED procVars
  /\ UNCHANGED <<invVars, distVars, dirVars>>
  /\ IF gate # "pass" THEN reject(Raised("AUTHORIZATION_ERROR"))
     ELSE IF body.fault = "bad_json" THEN reject(ErrorResp(500, "ERROR_500"))
     ELSE IF body.fault = "missing_field" THEN reject(ErrorResp(400, "VALIDATION_ERROR"))
     ELSE IF ~donor.ok THEN reject(ErrorResp(400, "VALIDATION_ERROR"))
     ELSE IF ~validate_donation_items(body.items)
       THEN reject(ErrorResp(400, "VALIDATION_ERROR"))
     ELSE IF body.fault = "bad_optional" THEN reject(ErrorResp(400, "VALIDATION_ERROR"))
     ELSE
       /\ donation_id # 0
       /\ LET metadata_item == [donation_id |-> donation_id, donor_id |-> donor.value,
                                status |-> "pending", items |-> <<>>, gsi1sk |-> now]
          IN /\ clock' = now
             /\ donations' = Put(donations, donation_id, metadata_item)
             /\ donationItems' = PutDonationItems(donationItems, donation_id, body.items, 1)
             /\ stamps' = StampDonationItems(
                             put_item(stamps, ItemKey("DONATION", donation_id, 0), now, now),
                             donation_id, 1, Len(body.items), now)
             /\ ops' = <<"put_item">> \o Repeat("put_item", Len(body.items))
             /\ resp' = Success(201, [donation_id |-> donation_id, status |-> "pending",
                                      items |-> body.items])

\* --------------------------------------------------------- update_donation
DONATION_STATUSES == {"pending", "received", "distributed"}

update_donation(caller, donation_id, body) ==
  LET req == [op |-> "update_donation", caller |-> caller, donation_id |-> donation_id,
              body |-> body]
      gate == Gate(caller, "DonorCoordinator")
      finish(r, o) == /\ resp' = r
                      /\ ops' = o
                      /\ UNCHANGED <<donations, stamps>>
      hasUpdates == body.status # NULL \/ body.notes
  IN
  /\ last' = req
  /\ UNCHANGED procVars
  /\ UNCHANGED <<clock, invVars, distVars, dirVars, donationItems>>
  /\ IF gate # "pass" THEN finish(Raised("AUTHORIZATION_ERROR"), <<>>)
     ELSE IF donation_id = 0 THEN finish(ErrorResp(404, "NOT_FOUND"), <<>>)
     ELSE IF body.fault = "bad_json" THEN finish(ErrorResp(500, "ERROR_500"), <<>>)
     ELSE IF donation_id \notin DOMAIN donations
       THEN finish(ErrorResp(404, "NOT_FOUND"), <<"get_item">>)
     ELSE IF body.status # NULL /\ body.status \notin DONATION_STATUSES
       THEN finish(ErrorResp(400, "VALIDATION_ERROR"), <<"get_item">>)
     ELSE IF body.fault = "bad_notes"
       THEN finish(ErrorResp(400, "VALIDATION_ERROR"), <<"get_item">>)
     ELSE IF ~hasUpdates THEN finish(ErrorResp(400, "ERROR_400"), <<"get_item">>)
     ELSE
       LET updated == [donations[donation_id] EXCEPT
                         !.status = IF body.status # NULL THEN body.status ELSE @]
       IN /\ donations' = [donations EXCEPT ![donation_id] = updated]
          /\ stamps' = update_item(stamps, ItemKey("DONATION", donation_id, 0), clock)
          /\ ops' = <<"get_item", "update_item">>
          /\ resp' = Success(200, [donation_id |-> donation_id, status |-> updated.status])

\* ----------------------------------------------------- create_distribution
DISTRIBUTION_STATUSES == {"scheduled", "in_progress", "completed", "cancelled"}

\* the distribution ids requests may name; uuid4 draws from the unused ones
DistributionIds == {1}

\* a METADATA record none of whose attributes is set
EmptyMeta ==
  [recipient_id |-> 0, items |-> <<>>, distribution_date |-> 0, status |-> NULL,
   completed_at |-> 0, completed_by |-> NULL,
   actual_items |-> [present |-> FALSE, v |-> <<>>], completion_notes |-> FALSE]

\* a RECIPIENT#<id> record none of whose attributes is set
EmptyMirror ==
  [status |-> NULL, distribution_date |-> 0, gsi1sk |-> 0, gsi2pk |-> 0, gsi2sk |-> 0]

\* the item checks shared by validate_distribution_input (min_quantity 1) and
\* validate_completion_input (min_quantity 0)
DistributionItemsAccepted(items, min_quantity) ==
  \A k \in 1 .. Len(items) :
    /\ items[k].donation_id # 0
    /\ validate_number(items[k].item_index, TRUE, 0).ok
    /\ validate_number(items[k].quantity, TRUE, min_quantity).ok

validate_distribution_input(body) ==
  /\ body.fault # "missing_field"
  /\ body.recipient_id # 0
  /\ validate_date(body.distribution_date)
  /\ Len(body.items) >= 1
  /\ DistributionItemsAccepted(body.items, 1)

create_distribution(caller, body, now, distribution_id, fail_at) ==
  LET req == [op |-> "create_distribution", caller |-> caller, body |-> body,
              fail_at |-> fail_at]
      gate == Gate(caller, "DistributionManager")
      reject(r) == /\ resp' = r
                   /\ ops' = <<>>
                   /\ UNCHANGED <<clock, distVars, stamps>>
  IN
  /\ last' = req
  /\ set_context("create_distribution", caller, gate = "pass")
  /\ UNCHANGED inflight
  /\ UNCHANGED <<invVars, donVars, dirVars>>
  /\ IF gate # "pass" THEN reject(Raised("AUTHORIZATION_ERROR"))
     ELSE IF body.fault = "bad_json" THEN reject(ErrorResp(500, "ERROR_500"))
     ELSE IF ~validate_distribution_input(body)
       THEN reject(ErrorResp(400, "VALIDATION_ERROR"))
     ELSE
       /\ distribution_id # 0
       /\ LET distribution_metadata ==
                [EmptyMeta EXCEPT !.recipient_id = body.recipient_id,
                                  !.items = body.items,
                                  !.distribution_date = body.distribution_date,
                                  !.status = "scheduled"]
              distribution_recipient ==
                [status |-> "scheduled", distribution_date |-> body.distribution_date,
                 gsi1sk |-> body.distribution_date, gsi2pk |-> body.recipient_id,
                 gsi2sk |-> body.distribution_date]
              metaStamps == put_item(stamps, ItemKey("DISTRIBUTION", distribution_id, 0),
                                     now, now)
          IN /\ clock' = now
             /\ distributions' = IF Written(fail_at, 1)
                                 THEN Put(distributions, distribution_id,
                                          distribution_metadata)
                                 ELSE distributions
             /\ mirrors' = IF Written(fail_at, 2)
                           THEN Put(mirrors, <<distribution_id, body.recipient_id>>,
                                    distribution_recipient)
                           ELSE mirrors
             /\ stamps' = IF Written(fail_at, 2)
                          THEN put_item(metaStamps,
                                        ItemKey("DISTRIBUTION#RECIPIENT", distribution_id,
                                                body.recipient_id), now, now)
                          ELSE IF Written(fail_at, 1) THEN metaStamps ELSE stamps
             /\ ops' = IF fail_at = 1 THEN <<"put_item">> ELSE <<"put_item", "put_item">>
             /\ resp' = IF fail_at \in {1, 2} THEN DatabaseError
                        ELSE Success(201, [distribution_id |-> distribution_id,
                                           status |-> "scheduled"])

\* ----------------------------------------------------- update_distribution
validate_update_input(body) ==
  /\ (body.status # NULL \/ body.distribution_date # 0 \/ body.notes)
  /\ (body.status # NULL => body.status \in DISTRIBUTION_STATUSES)
  /\ (body.distribution_date # 0 => validate_date(body.distribution_date))

\* the record at key k, or the empty record update_item starts from when the
\* key is absent (UpdateItem without a condition creates the item)
Stored(table, k, empty) == IF k \in DOMAIN table THEN table[k] ELSE empty

\* an update that puts the distribution back to scheduled when its date changes
MetaAfterUpdate_Reschedule(meta, body) ==
  [meta EXCEPT
     !.status = IF body.status # NULL THEN body.status
                ELSE IF body.distribution_date # 0 THEN "scheduled" ELSE @,
     !.distribution_date = IF body.distribution_date # 0
                           THEN body.distribution_date ELSE @]

\* the METADATA record after update_item(pk, sk, updates) (lines 100-111)
MetaAfterUpdate(meta, body) ==
  [meta EXCEPT
     !.status = IF body.status # NULL THEN body.status ELSE @,
     !.distribution_date = IF body.distribution_date # 0
                           THEN body.distribution_date ELSE @]

update_distribution(caller, distribution_id, body, fail_at) ==
  LET req == [op |-> "update_distribution", caller |-> caller,
              distribution_id |-> distribution_id, body |-> body, fail_at |-> fail_at,
              was_completed |-> /\ distribution_id \in DOMAIN distributions
                                /\ distributions[distribution_id].status = "completed"]
      gate == Gate(caller, "DistributionManager")
      reject(r) == /\ resp' = r
                   /\ ops' = <<>>
                   /\ UNCHANGED <<distVars, stamps>>
  IN
  /\ last' = req
  /\ set_context("update_distribution", caller, gate = "pass")
  /\ UNCHANGED inflight
  /\ UNCHANGED <<clock, invVars, donVars, dirVars>>
  /\ IF gate # "pass" THEN reject(Raised("AUTHORIZATION_ERROR"))
     ELSE IF distribution_id = 0 THEN reject(ErrorResp(400, "VALIDATION_ERROR"))
     ELSE IF body.fault = "bad_json" THEN reject(ErrorResp(500, "ERROR_500"))
     ELSE IF ~validate_update_input(body) THEN reject(ErrorResp(400, "VALIDATION_ERROR"))
     ELSE
       LET updated_distribution ==
             MetaAfterUpdate(Stored(distributions, distribution_id, EmptyMeta), body)
           touchMirror == body.distribution_date # 0 \/ body.status # NULL
           mkey == <<distribution_id, updated_distribution.recipient_id>>
           mirror == Stored(mirrors, mkey, EmptyMirror)
           newMirror ==
             [mirror EXCEPT
                !.distribution_date = IF body.distribution_date # 0
                                      THEN body.distribution_date ELSE @,
                !.gsi1sk = IF body.distribution_date # 0 THEN body.distribution_date ELSE @,
                !.gsi2sk = IF body.distribution_date # 0 THEN body.distribution_date ELSE @,
                !.status = IF body.status # NULL THEN body.status ELSE @]
           metaStamps == update_item(stamps, ItemKey("DISTRIBUTION", distribution_id, 0),
                                     clock)
           failed == fail_at = 1 \/ (fail_at = 2 /\ touchMirror)
       IN /\ distributions' = IF Written(fail_at, 1)
                              THEN Put(distributions, distribution_id, updated_distribution)
                              ELSE distributions
          /\ mirrors' = IF touchMirror /\ Written(fail_at, 2)
                        THEN Put(mirrors, mkey, newMirror) ELSE mirrors
          /\ stamps' = IF touchMirror /\ Written(fail_at, 2)
                       THEN update_item(metaStamps,
                                        ItemKey("DISTRIBUTION#RECIPIENT", distribution_id,
                                                mkey[2]), clock)
                       ELSE IF Written(fail_at, 1) THEN metaStamps ELSE stamps
          /\ ops' = <<"update_item">>
                    \o (IF touchMirror /\ fail_at # 1 THEN <<"update_item">> ELSE <<>>)
          /\ resp' = IF failed THEN DatabaseError
                     ELSE Success(200, [distribution_id |-> distribution_id,
                                        status |-> updated_distribution.status])

\* --------------------------------------------------- complete_distribution
validate_completion_input(body) ==
  body.actual_items.present => DistributionItemsAccepted(body.actual_items.v, 0)

\* update_inventory: the donation records after the items were worked off, the
\* store operations issued, the adjustments written, and whether a write was
\* refused (the loop then ends with a DatabaseError); fail_at numbers the
\* refused write among the writes still to come
RECURSIVE update_inventory(_, _, _)
update_inventory(items_to_distribute, dons, fail_at) ==
  IF items_to_distribute = <<>>
  THEN [donations |-> dons, ops |-> <<>>, adjustments |-> <<>>, failed |-> FALSE]
  ELSE
    LET item == Head(items_to_distribute)
        skipped == [d |-> dons, o |-> <<"get_item">>, a |-> <<>>, wrote |-> FALSE]
        step ==
          IF item.donation_id \notin DOMAIN dons THEN skipped
          ELSE LET donation_items == dons[item.donation_id].items IN
               IF item.item_index >= Len(donation_items) THEN skipped
               ELSE LET current_quantity == donation_items[item.item_index + 1].quantity
                        new_quantity == Max(0, current_quantity - item.quantity)
                    IN [d |-> [dons EXCEPT ![item.donation_id].items[item.item_index + 1]
                                             .quantity = new_quantity],
                        o |-> <<"get_item", "update_item">>,
                        a |-> <<[donation_id |-> item.donation_id,
                                 item_index |-> item.item_index,
                                 new_quantity |-> new_quantity]>>,
                        wrote |-> TRUE]
    IN IF step.wrote /\ fail_at = 1
       THEN [donations |-> dons, ops |-> step.o, adjustments |-> <<>>, failed |-> TRUE]
       ELSE LET rest == update_inventory(Tail(items_to_distribute), step.d,
                                         IF step.wrote /\ fail_at > 0
                                         THEN fail_at - 1 ELSE fail_at)
            IN [donations |-> rest.donations, ops |-> step.o \o rest.ops,
                adjustments |-> step.a \o rest.adjustments, failed |-> rest.failed]

\* the timestamps after the update_item calls update_inventory made
RECURSIVE StampAdjustments(_, _, _)
StampAdjustments(st, adjustments, now) ==
  IF adjustments = <<>> THEN st
  ELSE StampAdjustments(
         update_item(st, ItemKey("DONATION", Head(adjustments).donation_id, 0), now),
         Tail(adjustments), now)

\* the already-completed check left out
AlreadyCompleted_Never(distribution) == FALSE

\* the check of lines 210-215
AlreadyCompleted(distribution) == distribution.status = "completed"

complete_distribution(caller, distribution_id, body, now, fail_at) ==
  LET req == [op |-> "complete_distribution", caller |-> caller,
              distribution_id |-> distribution_id, body |-> body, fail_at |-> fail_at,
              was_completed |-> /\ distribution_id \in DOMAIN distributions
                                /\ distributions[distribution_id].status = "completed"]
      gate == Gate(caller, "Volunteer")
      finish(r, o) == /\ resp' = r
                      /\ ops' = o
                      /\ UNCHANGED <<clock, distVars, donations, stamps>>
  IN
  /\ last' = req
  /\ set_context("complete_distribution", caller, gate = "pass")
  /\ UNCHANGED inflight
  /\ UNCHANGED <<invVars, dirVars, donationItems>>
  /\ IF gate # "pass" THEN finish(Raised("AUTHORIZATION_ERROR"), <<>>)
     ELSE IF distribution_id = 0 THEN finish(ErrorResp(400, "VALIDATION_ERROR"), <<>>)
     ELSE IF body.fault = "bad_json" THEN finish(ErrorResp(500, "ERROR_500"), <<>>)
     ELSE IF ~validate_completion_input(body)
       THEN finish(ErrorResp(400, "VALIDATION_ERROR"), <<>>)
     ELSE IF distribution_id \notin DOMAIN distributions
       THEN finish(ErrorResp(404, "NOT_FOUND"), <<"get_item">>)
     ELSE IF AlreadyCompleted(distributions[distribution_id])
       THEN finish(ErrorResp(400, "VALIDATION_ERROR"), <<"get_item">>)
     ELSE
       LET distribution == distributions[distribution_id]
           items_to_distribute ==
             IF body.actual_items.present /\ body.actual_items.v # <<>>
             THEN body.actual_items.v ELSE distribution.items
           inv == update_inventory(items_to_distribute, donations, fail_at)
           \* the number of the METADATA write among the writes of the invocation
           metaWrite == Len(inv.adjustments) + 1
           metaWritten == ~inv.failed /\ Written(fail_at, metaWrite)
           mirrorWritten == ~inv.failed /\ Written(fail_at, metaWrite + 1)
           adjustStamps == StampAdjustments(stamps, inv.adjustments, now)
           metaStamps == update_item(adjustStamps,
                                     ItemKey("DISTRIBUTION", distribution_id, 0), now)
           updated_distribution ==
             [distribution EXCEPT
                !.status = "completed",
                !.completed_at = now,
                !.completed_by = caller.sub,
                !.actual_items = IF body.actual_items.present THEN body.actual_items ELSE @,
                !.completion_notes = IF body.completion_notes THEN TRUE ELSE @]
           mkey == <<distribution_id, distribution.recipient_id>>
       IN /\ clock' = now
          /\ donations' = inv.donations
          /\ distributions' = IF metaWritten
                              THEN [distributions EXCEPT
                                      ![distribution_id] = updated_distribution]
                              ELSE distributions
          /\ mirrors' = IF mirrorWritten
                        THEN Put(mirrors, mkey,
                                 [Stored(mirrors, mkey, EmptyMirror) EXCEPT
                                    !.status = "completed"])
                        ELSE mirrors
          /\ stamps' = IF mirrorWritten
                       THEN update_item(metaStamps,
                                        ItemKey("DISTRIBUTION#RECIPIENT", distribution_id,
                                                mkey[2]), now)
                       ELSE IF metaWritten THEN metaStamps ELSE adjustStamps
          /\ ops' = <<"get_item">> \o inv.ops
                    \o (IF inv.failed THEN <<>>
                        ELSE IF fail_at = metaWrite THEN <<"update_item">>
                        ELSE <<"update_item", "update_item">>)
          /\ resp' = IF mirrorWritten
                     THEN Success(200, [distribution_id |-> distribution_id,
                                        status |-> "completed",
                                        completed_at |-> now,
                                        inventory_adjustments |-> inv.adjustments])
                     ELSE DatabaseError

\* ------------------------------------------- donations and distributions
\* Requests with a body other than the default come from one permitted caller;
\* every caller sends the default body.
OnlyDefaultFrom(caller, body, default, role) ==
  body # default => caller = User(role)

DonationItemInputs ==
  [name : {<<"a">>}, quantity : (0 - 1) .. MaxItemQty]
  \cup {[name |-> <<>>, quantity |-> 1]}

RECURSIVE ListsUpTo(_, _)
ListsUpTo(S, n) ==
  IF n = 0 THEN {<<>>}
  ELSE LET shorter == ListsUpTo(S, n - 1)
       IN shorter \cup {Append(l, x) : l \in {m \in shorter : Len(m) = n - 1}, x \in S}

DonationDefault ==
  [donor_id |-> <<"x">>, items |-> <<[name |-> <<"a">>, quantity |-> 1]>>, fault |-> "none"]

DonationBodies ==
  {[DonationDefault EXCEPT !.items = l] : l \in ListsUpTo(DonationItemInputs, MaxDonationItems)}
  \cup {[DonationDefault EXCEPT !.fault = f] : f \in {"bad_json", "missing_field", "bad_optional"}}
  \cup {[DonationDefault EXCEPT !.donor_id = d] : d \in {<<>>, <<" ", "x">>}}

CreateDonation ==
  \E caller \in Callers, body \in DonationBodies, now \in Nows :
    /\ OnlyDefaultFrom(caller, body, DonationDefault, "DonorCoordinator")
    /\ create_donation(caller, body, now, FreshId(DonationIds, DOMAIN donations))

UpdateDonationDefault == [status |-> "received", notes |-> FALSE, fault |-> "none"]

UpdateDonationBodies ==
  [status : {NULL, "received", "bogus"}, notes : BOOLEAN, fault : {"none"}]
  \cup {[UpdateDonationDefault EXCEPT !.fault = f] : f \in {"bad_json", "bad_notes"}}

UpdateDonation ==
  \E caller \in Callers, donation_id \in 0 .. MaxDonations + 1, body \in UpdateDonationBodies :
    /\ OnlyDefaultFrom(caller, body, UpdateDonationDefault, "DonorCoordinator")
    /\ update_donation(caller, donation_id, body)

DistItem(d, i, q) == [donation_id |-> d, item_index |-> i, quantity |-> q]

DistributionDefault ==
  [recipient_id |-> 1, distribution_date |-> 1, items |-> <<DistItem(1, 0, 1)>>,
   fault |-> "none"]

DistributionBodies ==
  {[DistributionDefault EXCEPT !.items = l] :
     l \in {<<>>, <<DistItem(1, 0, 0)>>, <<DistItem(1, 0, 1)>>,
            <<DistItem(1, 1, 1), DistItem(MaxDonations + 1, 0, 1)>>}}
  \cup {[DistributionDefault EXCEPT !.fault = f] : f \in {"bad_json", "missing_field"}}
  \cup {[DistributionDefault EXCEPT !.recipient_id = 0],
        [DistributionDefault EXCEPT !.distribution_date = 0 - 1]}

CreateDistribution ==
  \E caller \in Callers, body \in DistributionBodies, now \in Nows :
    /\ OnlyDefaultFrom(caller, body, DistributionDefault, "DistributionManager")
    /\ create_distribution(caller, body, now,
                           FreshId(DistributionIds, DOMAIN distributions), 0)

UpdateDistributionDefault ==
  [status |-> "scheduled", distribution_date |-> 0, notes |-> FALSE, fault |-> "none"]

UpdateDistributionBodies ==
  [status : {NULL, "scheduled", "completed"},
   distribution_date : {0, 2}, notes : {FALSE}, fault : {"none"}]
  \cup {[UpdateDistributionDefault EXCEPT !.status = "bogus"],
        [UpdateDistributionDefault EXCEPT !.distribution_date = 0 - 1],
        [UpdateDistributionDefault EXCEPT !.status = NULL, !.notes = TRUE],
        [UpdateDistributionDefault EXCEPT !.fault = "bad_json"]}

UpdateDistribution ==
  \E caller \in Callers, distribution_id \in {0} \cup DistributionIds,
     body \in UpdateDistributionBodies :
    /\ OnlyDefaultFrom(caller, body, UpdateDistributionDefault, "DistributionManager")
    /\ update_distribution(caller, distribution_id, body, 0)

CompletionDefault ==
  [actual_items |-> [present |-> FALSE, v |-> <<>>], completion_notes |-> FALSE,
   fault |-> "none"]

CompletionBodies ==
  {[CompletionDefault EXCEPT !.actual_items = [present |-> TRUE, v |-> l]] :
     l \in {<<>>, <<DistItem(1, 0, 1)>>, <<DistItem(1, 0, 0 - 1)>>}}
  \cup {CompletionDefault,
        [CompletionDefault EXCEPT !.completion_notes = TRUE],
        [CompletionDefault EXCEPT !.fault = "bad_json"]}

CompleteDistribution ==
  \E caller \in Callers, distribution_id \in {0} \cup DistributionIds,
     body \in CompletionBodies, now \in Nows :
    /\ OnlyDefaultFrom(caller, body, CompletionDefault, "Volunteer")
    /\ complete_distribution(caller, distribution_id, body, now, 0)

\* the default request of each handler from its permitted caller
CreateDonationPlain ==
  \E now \in Nows :
    create_donation(User("DonorCoordinator"), DonationDefault, now,
                    FreshId(DonationIds, DOMAIN donations))

CreateDistributionPlain ==
  \E now \in Nows :
    create_distribution(User("DistributionManager"), DistributionDefault, now,
                        FreshId(DistributionIds, DOMAIN distributions), 0)

CompleteDistributionPlain ==
  \E distribution_id \in DistributionIds, now \in Nows :
    complete_distribution(User("Volunteer"), distribution_id,
                          CompletionDefault, now, 0)

\* the distribution life cycle over donations created by default requests
Next ==
  \/ CreateDonationPlain
  \/ CreateDistribution
  \/ UpdateDistribution
  \/ CompleteDistribution

Spec == Init /\ [][Next]_vars

\* the donation life cycle, with distributions created and completed by
\* default requests
NextDonation ==
  \/ CreateDonation
  \/ UpdateDonation
  \/ CreateDistributionPlain
  \/ CompleteDistributionPlain

SpecDonation == Init /\ [][NextDonation]_vars

\* ------------------------------------------------------------ token codec
\* Text is a tuple of code points and a byte string a tuple of 0..255.
\* A JSON value is [t |-> kind, v |-> content]: the code points of a string,
\* the lexeme of a number, the elements of an array, the <<key, value>> pairs
\* of an object in insertion order.
NullVal == [t |-> "null", v |-> <<>>]
BoolVal(b) == [t |-> "bool", v |-> IF b THEN <<1>> ELSE <<0>>]
NumVal(lexeme) == [t |-> "num", v |-> lexeme]
StrVal(s) == [t |-> "str", v |-> s]
ArrVal(items) == [t |-> "arr", v |-> items]
ObjVal(pairs) == [t |-> "obj", v |-> pairs]

\* Python truthiness of a decoded value ("if not exclusive_start_key")
Truthy(val) ==
  CASE val.t = "null" -> FALSE
    [] val.t = "bool" -> val.v = <<1>>
    [] val.t = "num" ->
         \E k \in 1 .. Len(val.v) :
           /\ val.v[k] \in (49 .. 57) \cup {78, 73}
           /\ \A j \in 1 .. k : val.v[j] \notin {101, 69}
    [] OTHER -> val.v # <<>>

HexDigit(n) == IF n < 10 THEN 48 + n ELSE 87 + n

Hex4(c) == <<HexDigit(c \div 4096), HexDigit((c \div 256) % 16),
             HexDigit((c \div 16) % 16), HexDigit(c % 16)>>

\* json.encoder.ESCAPE_DCT and the \uXXXX form of ensure_ascii
EscapeChar(c) ==
  CASE c = 34 -> <<92, 34>>
    [] c = 92 -> <<92, 92>>
    [] c = 8 -> <<92, 98>>
    [] c = 12 -> <<92, 102>>
    [] c = 10 -> <<92, 110>>
    [] c = 13 -> <<92, 114>>
    [] c = 9 -> <<92, 116>>
    [] c >= 32 /\ c <= 126 -> <<c>>
    [] c >= 65536 ->
         <<92, 117>> \o Hex4(55296 + ((c - 65536) \div 1024))
           \o <<92, 117>> \o Hex4(56320 + ((c - 65536) % 1024))
    [] OTHER -> <<92, 117>> \o Hex4(c)

RECURSIVE EscapeText(_)
EscapeText(s) == IF s = <<>> THEN <<>> ELSE EscapeChar(Head(s)) \o EscapeText(Tail(s))

\* json.dumps with the default separators ", " and ": "
RECURSIVE json_dumps(_)
RECURSIVE DumpItems(_, _)
json_dumps(val) ==
  CASE val.t = "null" -> <<110, 117, 108, 108>>
    [] val.t = "bool" -> IF val.v = <<1>> THEN <<116, 114, 117, 101>>
                         ELSE <<102, 97, 108, 115, 101>>
    [] val.t = "num" -> val.v
    [] val.t = "str" -> <<34>> \o EscapeText(val.v) \o <<34>>
    [] val.t = "arr" -> <<91>> \o DumpItems(val.v, FALSE) \o <<93>>
    [] val.t = "obj" -> <<123>> \o DumpItems(val.v, TRUE) \o <<125>>

DumpItems(items, keyed) ==
  IF items = <<>> THEN <<>>
  ELSE LET first == IF keyed
                    THEN <<34>> \o EscapeText(Head(items)[1]) \o <<34, 58, 32>>
                           \o json_dumps(Head(items)[2])
                    ELSE json_dumps(Head(items))
       IN first \o (IF Len(items) > 1 THEN <<44, 32>> ELSE <<>>)
                \o DumpItems(Tail(items), keyed)

\* str.encode(): UTF-8; a surrogate code point raises UnicodeEncodeError
\* the UTF-8 bytes of one code point
Utf8Bytes(c) ==
  CASE c < 128 -> <<c>>
    [] c >= 128 /\ c < 2048 -> <<192 + (c \div 64), 128 + (c % 64)>>
    [] c >= 2048 /\ c < 65536 ->
         <<224 + (c \div 4096), 128 + ((c \div 64) % 64), 128 + (c % 64)>>
    [] OTHER ->
         <<240 + (c \div 262144), 128 + ((c \div 4096) % 64),
           128 + ((c \div 64) % 64), 128 + (c % 64)>>

\* str.encode(): UTF-8, a lone surrogate raises UnicodeEncodeError
RECURSIVE utf8_encode(_)
utf8_encode(text) ==
  CASE Len(text) = 0 -> [ok |-> TRUE, bytes |-> <<>>]
    [] Len(text) = 1 ->
         IF text[1] >= 55296 /\ text[1] <= 57343
         THEN [ok |-> FALSE, bytes |-> <<>>]
         ELSE [ok |-> TRUE, bytes |-> Utf8Bytes(text[1])]
    [] OTHER ->
         LET h == Len(text) \div 2
             a == utf8_encode(SubSeq(text, 1, h))
             b == utf8_encode(SubSeq(text, h + 1, Len(text)))
         IN IF a.ok /\ b.ok
            THEN [ok |-> TRUE, bytes |-> a.bytes \o b.bytes]
            ELSE [ok |-> FALSE, bytes |-> <<>>]

\* the base64 alphabet
B64Char(n) ==
  CASE n < 26 -> 65 + n
    [] n >= 26 /\ n < 52 -> 71 + n
    [] n >= 52 /\ n < 62 -> n - 4
    [] n = 62 -> 43
    [] OTHER -> 47

\* the value of an alphabet character, 64 for every other byte
B64Index(ch) ==
  CASE ch >= 65 /\ ch <= 90 -> ch - 65
    [] ch >= 97 /\ ch <= 122 -> ch - 71
    [] ch >= 48 /\ ch <= 57 -> ch + 4
    [] ch = 43 -> 62
    [] ch = 47 -> 63
    [] OTHER -> 64

\* base64.b64encode
RECURSIVE b64encode(_)
b64encode(bytes) ==
  CASE Len(bytes) = 0 -> <<>>
    [] Len(bytes) = 1 ->
         <<B64Char(bytes[1] \div 4), B64Char((bytes[1] % 4) * 16), 61, 61>>
    [] Len(bytes) = 2 ->
         <<B64Char(bytes[1] \div 4),
           B64Char((bytes[1] % 4) * 16 + (bytes[2] \div 16)),
           B64Char((bytes[2] % 16) * 4), 61>>
    [] Len(bytes) = 3 ->
         <<B64Char(bytes[1] \div 4),
           B64Char((bytes[1] % 4) * 16 + (bytes[2] \div 16)),
           B64Char((bytes[2] % 16) * 4 + (bytes[3] \div 64)),
           B64Char(bytes[3] % 64)>>
    [] OTHER ->
         LET h == 3 * (IF Len(bytes) < 6 THEN 1 ELSE Len(bytes) \div 6)
         IN b64encode(SubSeq(bytes, 1, h)) \o b64encode(SubSeq(bytes, h + 1, Len(bytes)))

\* one character of binascii.a2b_base64 (validate=False): a byte outside the
\* alphabet is skipped, a completed pad sequence ends the input
A2bStep(st, ch) ==
  LET d == B64Index(ch)
  IN IF ch = 61
     THEN IF st.quad_pos >= 2 /\ st.quad_pos + st.pads + 1 >= 4
          THEN [st EXCEPT !.done = TRUE]
          ELSE [st EXCEPT !.pads = IF st.quad_pos >= 2 THEN st.pads + 1 ELSE st.pads]
     ELSE IF d >= 64 THEN st
     ELSE CASE st.quad_pos = 0 ->
                 [st EXCEPT !.quad_pos = 1, !.leftchar = d, !.pads = 0]
            [] st.quad_pos = 1 ->
                 [st EXCEPT !.quad_pos = 2, !.leftchar = d % 16, !.pads = 0,
                            !.out = Append(st.out, st.leftchar * 4 + (d \div 16))]
            [] st.quad_pos = 2 ->
                 [st EXCEPT !.quad_pos = 3, !.leftchar = d % 4, !.pads = 0,
                            !.out = Append(st.out, st.leftchar * 16 + (d \div 4))]
            [] OTHER ->
                 [st EXCEPT !.quad_pos = 0, !.leftchar = 0, !.pads = 0,
                            !.out = Append(st.out, st.leftchar * 64 + d)]

\* the characters s[i..j], read from state st
RECURSIVE a2b_base64(_, _, _, _)
a2b_base64(s, i, j, st) ==
  IF i > j \/ st.done THEN st
  ELSE IF i = j THEN A2bStep(st, s[i])
  ELSE LET m == (i + j) \div 2
           half == a2b_base64(s, i, m, st)
       IN a2b_base64(s, m + 1, j, half)

\* base64.b64decode: an incomplete last quad raises binascii.Error
b64decode(s) ==
  LET st == a2b_base64(s, 1, Len(s),
                       [quad_pos |-> 0, leftchar |-> 0, pads |-> 0, out |-> <<>>,
                        done |-> FALSE])
  IN [ok |-> st.done \/ st.quad_pos = 0, bytes |-> st.out]

\* one byte of a strict UTF-8 decoder: need continuation bytes are awaited,
\* the next one within lo..hi (no overlong form, no surrogate, at most
\* U+10FFFF)
Utf8Step(st, c) ==
  IF ~st.ok THEN st
  ELSE IF st.need = 0
  THEN CASE c < 128 -> [st EXCEPT !.out = Append(st.out, c)]
         [] c >= 194 /\ c <= 223 ->
              [st EXCEPT !.need = 1, !.cp = c - 192, !.lo = 128, !.hi = 191]
         [] c >= 224 /\ c <= 239 ->
              [st EXCEPT !.need = 2, !.cp = c - 224,
                         !.lo = IF c = 224 THEN 160 ELSE 128,
                         !.hi = IF c = 237 THEN 159 ELSE 191]
         [] c >= 240 /\ c <= 244 ->
              [st EXCEPT !.need = 3, !.cp = c - 240,
                         !.lo = IF c = 240 THEN 144 ELSE 128,
                         !.hi = IF c = 244 THEN 143 ELSE 191]
         [] OTHER -> [st EXCEPT !.ok = FALSE]
  ELSE IF c >= st.lo /\ c <= st.hi
  THEN IF st.need = 1
       THEN [st EXCEPT !.need = 0, !.cp = 0,
                       !.out = Append(st.out, st.cp * 64 + (c - 128))]
       ELSE [st EXCEPT !.need = st.need - 1, !.cp = st.cp * 64 + (c - 128),
                       !.lo = 128, !.hi = 191]
  ELSE [st EXCEPT !.ok = FALSE]

RECURSIVE Utf8Run(_, _, _, _)
Utf8Run(b, i, j, st) ==
  IF i > j \/ ~st.ok THEN st
  ELSE IF i = j THEN Utf8Step(st, b[i])
  ELSE LET m == (i + j) \div 2
           half == Utf8Run(b, i, m, st)
       IN Utf8Run(b, m + 1, j, half)

\* bytes.decode(): strict UTF-8
utf8_decode(b) ==
  LET st == Utf8Run(b, 1, Len(b),
                    [ok |-> TRUE, need |-> 0, cp |-> 0, lo |-> 128, hi |-> 191,
                     out |-> <<>>])
  IN IF st.ok /\ st.need = 0 THEN [ok |-> TRUE, text |-> st.out]
     ELSE [ok |-> FALSE, text |-> <<>>]

\* json.decoder.WHITESPACE: the position of the first character at or after i
\* that is not one of " \t\n\r"
RECURSIVE SkipWs(_, _)
SkipWs(s, i) ==
  IF i <= Len(s) /\ s[i] \in {32, 9, 10, 13} THEN SkipWs(s, i + 1) ELSE i

IsDigit(c) == c >= 48 /\ c <= 57

RECURSIVE SkipDigits(_, _)
SkipDigits(s, i) == IF i <= Len(s) /\ IsDigit(s[i]) THEN SkipDigits(s, i + 1) ELSE i

At(s, i) == IF i >= 1 /\ i <= Len(s) THEN s[i] ELSE 0 - 1

\* s has the literal lit at position i
HasLit(s, i, lit) ==
  /\ i + Len(lit) - 1 <= Len(s)
  /\ SubSeq(s, i, i + Len(lit) - 1) = lit

\* NUMBER_RE: the position after the exponent that follows position fracEnd
NumberExp(s, fracEnd, k) ==
  IF k # 0 /\ IsDigit(At(s, k)) THEN SkipDigits(s, k) ELSE fracEnd

\* ... after the fraction that follows position intEnd
NumberFrac(s, fracEnd) ==
  NumberExp(s, fracEnd,
            IF At(s, fracEnd) \in {101, 69}
            THEN (IF At(s, fracEnd + 1) \in {43, 45} THEN fracEnd + 2 ELSE fracEnd + 1)
            ELSE 0)

NumberInt(s, i, intEnd) ==
  IF intEnd = 0 THEN i
  ELSE NumberFrac(s, IF At(s, intEnd) = 46 /\ IsDigit(At(s, intEnd + 1))
                     THEN SkipDigits(s, intEnd + 1) ELSE intEnd)

NumberSign(s, i, j) ==
  NumberInt(s, i, IF At(s, j) = 48 THEN j + 1
                  ELSE IF IsDigit(At(s, j)) THEN SkipDigits(s, j) ELSE 0)

\* NUMBER_RE: the position after the longest number starting at i, or i when
\* no number starts there
MatchNumber(s, i) == NumberSign(s, i, IF At(s, i) = 45 THEN i + 1 ELSE i)

HexValue(c) ==
  CASE c >= 48 /\ c <= 57 -> c - 48
    [] c >= 97 /\ c <= 102 -> c - 87
    [] c >= 65 /\ c <= 70 -> c - 55
    [] OTHER -> 0 - 1

\* the code point of the four hex digits at i, or -1
Hex4Value(s, i) ==
  IF i + 3 > Len(s) \/ \E k \in i .. i + 3 : HexValue(s[k]) < 0 THEN 0 - 1
  ELSE HexValue(s[i]) * 4096 + HexValue(s[i + 1]) * 256
         + HexValue(s[i + 2]) * 16 + HexValue(s[i + 3])

ParseFail == [ok |-> FALSE, val |-> NullVal, pos |-> 0]

\* BACKSLASH: the character a one-letter escape stands for, or -1
EscapeValue(e) ==
  CASE e = 34 -> 34
    [] e = 92 -> 92
    [] e = 47 -> 47
    [] e = 98 -> 8
    [] e = 102 -> 12
    [] e = 110 -> 10
    [] e = 114 -> 13
    [] e = 116 -> 9
    [] OTHER -> 0 - 1

\* scanstring (strict): the string whose opening quote precedes position i
RECURSIVE ScanString(_, _, _)
RECURSIVE ScanSimple(_, _, _, _)
RECURSIVE ScanUnicode(_, _, _, _, _)
ScanString(s, i, acc) ==
  IF i > Len(s) THEN ParseFail
  ELSE CASE s[i] = 34 -> [ok |-> TRUE, val |-> StrVal(acc), pos |-> i + 1]
         [] s[i] < 32 -> ParseFail
         [] s[i] = 92 ->
              IF At(s, i + 1) = 117
              THEN ScanUnicode(s, i, acc, Hex4Value(s, i + 2),
                               IF At(s, i + 6) = 92 /\ At(s, i + 7) = 117
                               THEN Hex4Value(s, i + 8) ELSE 0 - 1)
              ELSE ScanSimple(s, i, acc, EscapeValue(At(s, i + 1)))
         [] OTHER -> ScanString(s, i + 1, Append(acc, s[i]))

\* a one-letter escape at position i
ScanSimple(s, i, acc, simple) ==
  IF simple < 0 THEN ParseFail ELSE ScanString(s, i + 2, Append(acc, simple))

\* a \uXXXX escape at position i, with the low surrogate that may follow it
ScanUnicode(s, i, acc, hi, lo) ==
  IF hi < 0 THEN ParseFail
  ELSE IF hi >= 55296 /\ hi <= 56319 /\ lo >= 56320 /\ lo <= 57343
  THEN ScanString(s, i + 12, Append(acc, 65536 + (hi - 55296) * 1024 + (lo - 56320)))
  ELSE ScanString(s, i + 6, Append(acc, hi))

\* dict[key] = value: a repeated key keeps its place and takes the new value
DictSet(pairs, key, value) ==
  IF \E k \in 1 .. Len(pairs) : pairs[k][1] = key
  THEN [k \in 1 .. Len(pairs) |->
          IF pairs[k][1] = key THEN <<key, value>> ELSE pairs[k]]
  ELSE Append(pairs, <<key, value>>)

\* a constant of the grammar at position i
ScanLiteral(s, i, text, val) ==
  IF HasLit(s, i, text) THEN [ok |-> TRUE, val |-> val, pos |-> i + Len(text)]
  ELSE ParseFail

\* scan_once: the JSON value starting at position i
RECURSIVE ScanOnce(_, _)
RECURSIVE ScanValue(_, _, _, _)
RECURSIVE ScanArray(_, _, _)
RECURSIVE ArrayItem(_, _, _)
RECURSIVE ArrayNext(_, _, _)
RECURSIVE ScanObject(_, _, _)
RECURSIVE ObjectKey(_, _, _)
RECURSIVE ObjectColon(_, _, _, _)
RECURSIVE ObjectValue(_, _, _, _)
RECURSIVE ObjectNext(_, _, _)
ScanOnce(s, i) == ScanValue(s, i, At(s, i), MatchNumber(s, i))

ObjectOpen(s, j) ==
  IF At(s, j) = 125 THEN [ok |-> TRUE, val |-> ObjVal(<<>>), pos |-> j + 1]
  ELSE ScanObject(s, j, <<>>)

ArrayOpen(s, j) ==
  IF At(s, j) = 93 THEN [ok |-> TRUE, val |-> ArrVal(<<>>), pos |-> j + 1]
  ELSE ScanArray(s, j, <<>>)

ScanValue(s, i, c, numEnd) ==
  CASE c = 34 -> ScanString(s, i + 1, <<>>)
    [] c = 123 -> ObjectOpen(s, SkipWs(s, i + 1))
    [] c = 91 -> ArrayOpen(s, SkipWs(s, i + 1))
    [] c = 110 -> ScanLiteral(s, i, <<110, 117, 108, 108>>, NullVal)
    [] c = 116 -> ScanLiteral(s, i, <<116, 114, 117, 101>>, BoolVal(TRUE))
    [] c = 102 -> ScanLiteral(s, i, <<102, 97, 108, 115, 101>>, BoolVal(FALSE))
    [] c = 78 -> ScanLiteral(s, i, <<78, 97, 78>>, NumVal(<<78, 97, 78>>))
    [] c = 73 -> ScanLiteral(s, i, <<73, 110, 102, 105, 110, 105, 116, 121>>,
                             NumVal(<<73, 110, 102, 105, 110, 105, 116, 121>>))
    [] c = 45 /\ numEnd = i ->
         ScanLiteral(s, i, <<45, 73, 110, 102, 105, 110, 105, 116, 121>>,
                     NumVal(<<45, 73, 110, 102, 105, 110, 105, 116, 121>>))
    [] OTHER ->
         IF numEnd > i
         THEN [ok |-> TRUE, val |-> NumVal(SubSeq(s, i, numEnd - 1)), pos |-> numEnd]
         ELSE ParseFail

\* the elements of an array from position i on, after acc
ScanArray(s, i, acc) == ArrayItem(s, acc, ScanOnce(s, i))

ArrayItem(s, acc, item) ==
  IF ~item.ok THEN ParseFail
  ELSE ArrayNext(s, Append(acc, item.val), SkipWs(s, item.pos))

\* after an element: "]" ends the array, "," continues it
ArrayNext(s, items, j) ==
  IF At(s, j) = 93 THEN [ok |-> TRUE, val |-> ArrVal(items), pos |-> j + 1]
  ELSE IF At(s, j) = 44 THEN ScanArray(s, SkipWs(s, j + 1), items)
  ELSE ParseFail

\* the members of an object from position i on, after acc
ScanObject(s, i, acc) ==
  IF At(s, i) = 34 THEN ObjectKey(s, acc, ScanString(s, i + 1, <<>>))
  ELSE ParseFail

ObjectKey(s, acc, key) ==
  IF ~key.ok THEN ParseFail ELSE ObjectColon(s, acc, key, SkipWs(s, key.pos))

\* after a member's key: ":" and the value
ObjectColon(s, acc, key, colon) ==
  IF At(s, colon) = 58
  THEN ObjectValue(s, acc, key, ScanOnce(s, SkipWs(s, colon + 1)))
  ELSE ParseFail

ObjectValue(s, acc, key, value) ==
  IF ~value.ok THEN ParseFail
  ELSE ObjectNext(s, DictSet(acc, key.val.v, value.val), SkipWs(s, value.pos))

\* after a member's value: "}" ends the object, "," continues it
ObjectNext(s, members, j) ==
  IF At(s, j) = 125 THEN [ok |-> TRUE, val |-> ObjVal(members), pos |-> j + 1]
  ELSE IF At(s, j) = 44 THEN ScanObject(s, SkipWs(s, j + 1), members)
  ELSE ParseFail

\* json.loads: one value between optional whitespace, nothing after it
JsonResult(text, r) ==
  IF At(text, 1) = 65279 \/ ~r.ok \/ SkipWs(text, r.pos) # Len(text) + 1
  THEN [ok |-> FALSE, val |-> NullVal]
  ELSE [ok |-> TRUE, val |-> r.val]

json_loads(text) == JsonResult(text, ScanOnce(text, SkipWs(text, 1)))

\* encode_pagination_token
encode_pagination_token(last_key) == b64encode(utf8_encode(json_dumps(last_key)).bytes)

\* decode_pagination_token: the decoded value, None after any exception
decode_pagination_token(token) ==
  LET raw == utf8_encode(token)
      bytes == IF raw.ok THEN b64decode(raw.bytes) ELSE [ok |-> FALSE, bytes |-> <<>>]
      text == IF bytes.ok THEN utf8_decode(bytes.bytes)
              ELSE [ok |-> FALSE, text |-> <<>>]
      value == IF text.ok THEN json_loads(text.text) ELSE [ok |-> FALSE, val |-> NullVal]
  IN IF value.ok THEN value.val ELSE NullVal

\* ------------------------------------------------------------ index queries
\* Names and sort keys are compared as DynamoDB compares strings: code point
\* by code point. A date key is the one-element text <<d>>.
Ord(c) ==
  CASE c = " " -> 32
    [] c = "a" -> 97
    [] c = "b" -> 98
    [] c = "x" -> 120
    [] c = "y" -> 121

Text(s) == [k \in 1 .. Len(s) |-> Ord(s[k])]

\* str(n) for n >= 0
NumText(n) == [k \in 1 .. Len(Digits(n)) |-> 48 + Digits(n)[k]]

RECURSIVE TextLeq(_, _)
TextLeq(a, b) ==
  IF a = <<>> THEN TRUE
  ELSE IF b = <<>> THEN FALSE
  ELSE IF Head(a) # Head(b) THEN Head(a) < Head(b)
  ELSE TextLeq(Tail(a), Tail(b))

\* datetime.utcnow().isoformat() of the reading now: the date, "T", the time
IsoFormat(now) == NumText(now) \o <<84>>

\* Key(sort key).between(lo, hi) taken without its upper end
KeySatisfies_OpenBetween(cond, sk) ==
  CASE cond.op = "between" ->
         TextLeq(NumText(cond.lo), sk) /\ ~TextLeq(NumText(cond.hi), sk)
    [] cond.op = "gte" -> TextLeq(NumText(cond.lo), sk)
    [] cond.op = "lte" -> TextLeq(sk, NumText(cond.hi))
    [] OTHER -> TRUE

\* the sort-key part of a key condition on a string attribute: between, gte
\* and lte include their bounds and compare the strings
KeySatisfies(cond, sk) ==
  CASE cond.op = "between" ->
         TextLeq(NumText(cond.lo), sk) /\ TextLeq(sk, NumText(cond.hi))
    [] cond.op = "gte" -> TextLeq(NumText(cond.lo), sk)
    [] cond.op = "lte" -> TextLeq(sk, NumText(cond.hi))
    [] OTHER -> TRUE

\* the date range of a key condition, as the list handlers build it:
\* an empty or missing parameter (0) adds no bound
DateCondition(start_date, end_date) ==
  IF start_date # 0 /\ end_date # 0
  THEN [op |-> "between", lo |-> start_date, hi |-> end_date]
  ELSE IF start_date # 0 THEN [op |-> "gte", lo |-> start_date, hi |-> 0]
  ELSE IF end_date # 0 THEN [op |-> "lte", lo |-> 0, hi |-> end_date]
  ELSE [op |-> "none", lo |-> 0, hi |-> 0]

\* an index entry comes before another in ascending index order
EntryBefore(e, f) ==
  \/ e.sk # f.sk /\ TextLeq(e.sk, f.sk)
  \/ e.sk = f.sk /\ e.id < f.id

RECURSIVE SortAscending(_)
SortAscending(S) ==
  IF S = {} THEN <<>>
  ELSE LET m == CHOOSE e \in S : \A f \in S \ {e} : EntryBefore(e, f)
       IN <<m>> \o SortAscending(S \ {m})

Reverse(seq) == [k \in 1 .. Len(seq) |-> seq[Len(seq) + 1 - k]]

\* ScanIndexForward ignored: always ascending
IndexOrder_Ascending(entries, scan_forward) == SortAscending(entries)

\* the entries in index order, ascending or (ScanIndexForward=False) descending
IndexOrder(entries, scan_forward) ==
  IF scan_forward THEN SortAscending(entries) ELSE Reverse(SortAscending(entries))

Take(seq, n) == SubSeq(seq, 1, Min(n, Len(seq)))

RECURSIVE SelectSeq2(_, _)
SelectSeq2(seq, status) ==
  IF seq = <<>> THEN <<>>
  ELSE (IF Head(seq).item.status = status THEN <<Head(seq)>> ELSE <<>>)
         \o SelectSeq2(Tail(seq), status)

\* a decoded token has the shape of a key: an object of string attributes
IsKeyShaped(esk) ==
  /\ esk.t = "obj"
  /\ \A k \in 1 .. Len(esk.v) : esk.v[k][2].t = "str"

QueryFailed(code) ==
  [ok |-> FALSE, code |-> code, items |-> <<>>, count |-> 0,
   last_evaluated_key |-> NullVal]

\* the result of a query: Items, Count and LastEvaluatedKey
QueryResult(found, last_evaluated_key) ==
  [ok |-> TRUE, code |-> "OK",
   items |-> [k \in 1 .. Len(found) |-> found[k].item],
   count |-> Len(found),
   last_evaluated_key |-> last_evaluated_key]

\* FilterExpression: applied to the items read
QueryFilter(read, filter_status, stopped) ==
  QueryResult(IF filter_status = NULL THEN read ELSE SelectSeq2(read, filter_status),
              IF stopped THEN read[Len(read)].key ELSE NullVal)

\* Limit bounds the items read, before the filter; a LastEvaluatedKey is
\* returned when the read stopped at the limit. limit 0: Limit not passed.
QueryRead(rest, filter_status, limit) ==
  QueryFilter(IF limit > 0 THEN Take(rest, limit) ELSE rest, filter_status,
              limit > 0 /\ Len(rest) >= limit)

\* ExclusiveStartKey: the read starts after the entry with that key; a key
\* that is no key of the index is rejected by the store
QueryResume(ordered, at, filter_status, limit) ==
  IF at = {} THEN QueryFailed("DATABASE_ERROR")
  ELSE QueryRead(SubSeq(ordered, (CHOOSE k \in at : TRUE) + 1, Len(ordered)),
                 filter_status, limit)

\* the query over the entries that satisfy the key condition, in index order.
\* An exclusive_start_key that is no dict of strings fails in the client
\* (ParamValidationError, not a ClientError); rejects_reversed: the store
\* answers BETWEEN with lo > hi by an error.
QueryOrdered(ordered, cond, filter_status, limit, exclusive_start_key, rejects_reversed) ==
  IF Truthy(exclusive_start_key) /\ ~IsKeyShaped(exclusive_start_key)
  THEN QueryFailed("ERROR_500")
  ELSE IF cond.op = "between" /\ cond.lo > cond.hi /\ rejects_reversed
  THEN QueryFailed("DATABASE_ERROR")
  ELSE IF Truthy(exclusive_start_key)
  THEN QueryResume(ordered,
                   {k \in 1 .. Len(ordered) : ordered[k].key = exclusive_start_key},
                   filter_status, limit)
  ELSE QueryRead(ordered, filter_status, limit)

\* the query with ExclusiveStartKey left out of the call
Query_NoStartKey(entries, cond, filter_status, limit, exclusive_start_key, scan_forward, rejects) ==
  QueryOrdered(IndexOrder({e \in entries : KeySatisfies(cond, e.sk)}, scan_forward),
               cond, filter_status, limit, NullVal, rejects)

\* DynamoDBHelper.query on one partition of an index. entries are the items
\* of the partition, each with its sort key, id, primary+index key and the
\* item itself. limit 0 and a falsy exclusive_start_key mean "not passed".
Query(entries, cond, filter_status, limit, exclusive_start_key, scan_forward, rejects) ==
  QueryOrdered(IndexOrder({e \in entries : KeySatisfies(cond, e.sk)}, scan_forward),
               cond, filter_status, limit, exclusive_start_key, rejects)


\* ------------------------------------------------------- query parameters
\* A numeric query parameter: missing, a decimal integer, or other text.
NoParam == [given |-> FALSE, numeric |-> TRUE, v |-> 0]
IntParam(n) == [given |-> TRUE, numeric |-> TRUE, v |-> n]
BadParam == [given |-> TRUE, numeric |-> FALSE, v |-> 0]

\* int(query_params.get(name, default)): ValueError on other text
ParseInt(p, default) ==
  IF ~p.given THEN [ok |-> TRUE, v |-> default]
  ELSE IF p.numeric THEN [ok |-> TRUE, v |-> p.v]
  ELSE [ok |-> FALSE, v |-> 0]

DEFAULT_PAGE_SIZE == 50
MAX_PAGE_SIZE == 100

\* paginated_response
Paginated(items, total_count, page, page_size, next_token) ==
  Success(200, [items |-> items,
                pagination |-> [page |-> page, page_size |-> page_size,
                                total_count |-> total_count,
                                total_pages |-> (total_count + page_size - 1) \div page_size,
                                next_token |-> next_token]])

\* encode_pagination_token of a truthy LastEvaluatedKey, else no token
NextToken(last_evaluated_key) ==
  IF Truthy(last_evaluated_key) THEN encode_pagination_token(last_evaluated_key)
  ELSE <<>>

\* the response to a token-paged query: a failed query is a 500, else the
\* items of the result with the token of its LastEvaluatedKey
QueryResponse(result, page, page_size) ==
  IF ~result.ok THEN ErrorResp(500, result.code)
  ELSE Paginated(result.items, result.count, page, page_size,
                 NextToken(result.last_evaluated_key))

\* items[start_idx:end_idx] of the manual pagination
PageSlice(items, page, page_size) ==
  SubSeq(items, (page - 1) * page_size + 1, Min(page * page_size, Len(items)))

\* text constants of the keys
T_PK == <<80, 75>>
T_SK == <<83, 75>>
T_GSI1PK == <<71, 83, 73, 49, 80, 75>>
T_GSI1SK == <<71, 83, 73, 49, 83, 75>>
T_GSI2PK == <<71, 83, 73, 50, 80, 75>>
T_GSI2SK == <<71, 83, 73, 50, 83, 75>>
T_DONATION == <<68, 79, 78, 65, 84, 73, 79, 78, 35>>
T_DONATIONS == <<68, 79, 78, 65, 84, 73, 79, 78, 83>>
T_DONOR == <<68, 79, 78, 79, 82, 35>>
T_DONORS == <<68, 79, 78, 79, 82, 83>>
T_METADATA == <<77, 69, 84, 65, 68, 65, 84, 65>>
T_PROFILE == <<80, 82, 79, 70, 73, 76, 69>>

\* the key of an item read through an index: index key and primary key
IndexKey(pk_name, pk, sk_name, sk, table_pk, table_sk) ==
  ObjVal(<< <<pk_name, StrVal(pk)>>, <<sk_name, StrVal(sk)>>,
            <<T_PK, StrVal(table_pk)>>, <<T_SK, StrVal(table_sk)>> >>)

\* ------------------------------------------------------------ create_donor
DonorIds == 1 .. MaxDonors

create_donor(caller, body, donor_id) ==
  LET req == [op |-> "create_donor", caller |-> caller, body |-> body]
      gate == Gate(caller, "DonorCoordinator")
      name == validate_string(body.name, 2, 100)
      email == validate_email(body.email)
      donor == [PK |-> <<"DONOR", donor_id>>, SK |-> "PROFILE", donor_id |-> donor_id,
                name |-> name.value, email |-> email.value,
                GSI1PK |-> "DONORS", GSI1SK |-> name.value]
      reject(r) == /\ resp' = r
                   /\ ops' = <<>>
                   /\ UNCHANGED <<donors, userVars, stamps>>
  IN
  /\ last' = req
  /\ UNCHANGED procVars
  /\ UNCHANGED <<clock, invVars, donVars, distVars, recipients, userVars>>
  /\ IF gate # "pass" THEN reject(Raised("AUTHORIZATION_ERROR"))
     ELSE IF body.fault \in {"bad_json", "missing_field"} \/ ~name.ok
             \/ body.fault = "bad_email" \/ ~email.ok
       THEN reject(Raised("VALIDATION_ERROR"))
     ELSE
       /\ donor_id # 0
       /\ \E rejected \in EmptyKeyChoices(donor.GSI1SK) :
            IF rejected
            THEN /\ resp' = ErrorResp(500, "DATABASE_ERROR")
                 /\ ops' = <<"put_item">>
                 /\ UNCHANGED <<donors, userVars, stamps>>
            ELSE /\ donors' = Put(donors, donor_id, donor)
                 /\ stamps' = put_item(stamps, ItemKey("DONOR", donor_id, 0), 0, clock)
                 /\ ops' = <<"put_item">>
                 /\ resp' = Success(201, PublicFields(donor))

\* ---------------------------------------------------------- list_donations
\* the donations of one partition of ByDonor (GSI1) or ByDate (GSI2)
DonationEntries(donor_id) ==
  {[sk |-> IsoFormat(donations[d].gsi1sk),
    id |-> d,
    key |-> IF donor_id # <<>>
            THEN IndexKey(T_GSI1PK, T_DONOR \o Text(donor_id), T_GSI1SK,
                          IsoFormat(donations[d].gsi1sk), T_DONATION \o NumText(d),
                          T_METADATA)
            ELSE IndexKey(T_GSI2PK, T_DONATIONS, T_GSI2SK,
                          IsoFormat(donations[d].gsi1sk), T_DONATION \o NumText(d),
                          T_METADATA),
    item |-> [donation_id |-> d, donor_id |-> donations[d].donor_id,
              status |-> donations[d].status, created_at |-> IsoFormat(donations[d].gsi1sk)]] :
     d \in {e \in DOMAIN donations :
              donor_id # <<>> => donations[e].donor_id = donor_id}}

list_donations(caller, params, rejects_reversed) ==
  LET gate == Gate(caller, "DonorCoordinator")
      page == ParseInt(params.page, 1)
      page_size == ParseInt(params.page_size, DEFAULT_PAGE_SIZE)
      has_token == params.next_token # <<>>
      exclusive_start_key ==
        IF has_token THEN decode_pagination_token(params.next_token) ELSE NullVal
      req == [op |-> "list_donations", caller |-> caller, params |-> params]
      result == Query(DonationEntries(params.donor_id),
                      DateCondition(params.start_date, params.end_date),
                      params.status, page_size.v, exclusive_start_key, FALSE,
                      rejects_reversed)
      finish(r, o) == /\ resp' = r
                      /\ ops' = o
  IN
  /\ last' = req
  /\ UNCHANGED procVars
  /\ UNCHANGED <<clock, invVars, donVars, distVars, dirVars, stamps>>
  /\ IF gate # "pass" THEN finish(Raised("AUTHORIZATION_ERROR"), <<>>)
     ELSE IF ~page.ok \/ ~page_size.ok THEN finish(ErrorResp(500, "ERROR_500"), <<>>)
     ELSE IF page.v < 1 THEN finish(ErrorResp(400, "VALIDATION_ERROR"), <<>>)
     ELSE IF page_size.v < 1 \/ page_size.v > MAX_PAGE_SIZE
       THEN finish(ErrorResp(400, "VALIDATION_ERROR"), <<>>)
     ELSE IF params.status # NULL /\ params.status \notin DONATION_STATUSES
       THEN finish(ErrorResp(400, "VALIDATION_ERROR"), <<>>)
     ELSE IF \/ params.start_date # 0 /\ ~validate_date(params.start_date)
             \/ params.end_date # 0 /\ ~validate_date(params.end_date)
       THEN finish(ErrorResp(400, "VALIDATION_ERROR"), <<>>)
     ELSE IF has_token /\ ~Truthy(exclusive_start_key)
       THEN finish(ErrorResp(400, "VALIDATION_ERROR"), <<>>)
     ELSE finish(QueryResponse(result, page.v, page_size.v), <<"query">>)

\* ------------------------------------------------------------- list_donors
DonorEntries ==
  {[sk |-> Text(donors[d].name),
    id |-> d,
    key |-> IndexKey(T_GSI1PK, T_DONORS, T_GSI1SK, Text(donors[d].name),
                     T_DONOR \o NumText(d), T_PROFILE),
    item |-> [donor_id |-> d, name |-> donors[d].name, status |-> NULL]] :
     d \in DOMAIN donors}

\* requests without a search parameter
list_donors(caller, params) ==
  LET gate == Gate(caller, "DonorCoordinator")
      page == ParseInt(params.page, 1)
      page_size == ParseInt(params.page_size, DEFAULT_PAGE_SIZE)
      size == IF page_size.v < 1 \/ page_size.v > MAX_PAGE_SIZE
              THEN DEFAULT_PAGE_SIZE ELSE page_size.v
      has_token == params.next_token # <<>>
      exclusive_start_key ==
        IF has_token THEN decode_pagination_token(params.next_token) ELSE NullVal
      req == [op |-> "list_donors", caller |-> caller, params |-> params]
      result == Query(DonorEntries, DateCondition(0, 0), NULL, size,
                      exclusive_start_key, TRUE, FALSE)
      finish(r, o) == /\ resp' = r
                      /\ ops' = o
  IN
  /\ last' = req
  /\ UNCHANGED procVars
  /\ UNCHANGED <<clock, invVars, donVars, distVars, dirVars, stamps>>
  /\ IF gate # "pass" THEN finish(Raised("AUTHORIZATION_ERROR"), <<>>)
     ELSE IF ~page.ok \/ ~page_size.ok THEN finish(ErrorResp(500, "ERROR_500"), <<>>)
     ELSE IF has_token /\ exclusive_start_key.t = "null"
       THEN finish(ErrorResp(400, "VALIDATION_ERROR"), <<>>)
     ELSE finish(QueryResponse(result, IF page.v < 1 THEN 1 ELSE page.v, size),
                 <<"query">>)

\* ------------------------------------------------- listing: donor side
DonorDefault ==
  [name |-> <<"a", "b">>, email |-> <<"a", "@", "b", ".", "c", "c">>, fault |-> "none"]

DonorBodies ==
  {DonorDefault, [DonorDefault EXCEPT !.name = <<"a">>]}
  \cup {[DonorDefault EXCEPT !.fault = f] : f \in {"bad_json", "missing_field", "bad_email"}}

CreateDonor ==
  \E caller \in Callers, body \in DonorBodies :
    /\ OnlyDefaultFrom(caller, body, DonorDefault, "DonorCoordinator")
    /\ create_donor(caller, body, FreshId(DonorIds, DOMAIN donors))

ListedDonationIds == 1 .. MaxListed

\* donations of two donors, each with the default item list
CreateDonationFor ==
  \E donor_id \in {<<"x">>, <<"y">>}, now \in Nows :
    create_donation(User("DonorCoordinator"), [DonationDefault EXCEPT !.donor_id = donor_id],
                    now, FreshId(ListedDonationIds, DOMAIN donations))

\* next_token values no response has issued: "NQ==" (5), "WzFd" ([1]),
\* "e30=" ({}), "bnVsbA==" (null), the encoding of {"a": "b"}, "NQ=" (bad
\* padding), "!!!" (no base64 data), "/w==" (a byte that is not UTF-8)
GarbageTokens ==
  {<<78, 81, 61, 61>>, <<87, 122, 70, 100>>, <<101, 51, 48, 61>>,
   <<98, 110, 86, 115, 98, 65, 61, 61>>,
   <<101, 121, 74, 104, 73, 106, 111, 103, 73, 109, 73, 105, 102, 81, 61, 61>>,
   <<78, 81, 61>>, <<33, 33, 33>>, <<47, 119, 61, 61>>}

PageSizeInputs ==
  {IntParam(0), IntParam(1), IntParam(MAX_PAGE_SIZE), IntParam(MAX_PAGE_SIZE + 1), BadParam}

ListDonationsDefault ==
  [page |-> NoParam, page_size |-> NoParam, donor_id |-> <<"x">>, status |-> NULL,
   start_date |-> 0, end_date |-> 0, next_token |-> <<>>]

ListDonationsRequests ==
  {[ListDonationsDefault EXCEPT !.page_size = s, !.donor_id = d] :
     s \in PageSizeInputs, d \in {<<>>, <<"x">>}}
  \cup {[ListDonationsDefault EXCEPT !.page = p] : p \in {IntParam(0), IntParam(2), BadParam}}
  \cup {[ListDonationsDefault EXCEPT !.start_date = a, !.end_date = b, !.donor_id = d,
                                     !.page_size = s] :
          a \in 0 .. MaxClock, b \in 0 .. MaxClock, d \in {<<>>, <<"x">>, <<"y">>},
          s \in {NoParam, IntParam(1)}}
  \cup {[ListDonationsDefault EXCEPT !.start_date = 0 - 1],
        [ListDonationsDefault EXCEPT !.end_date = 0 - 1]}
  \cup {[ListDonationsDefault EXCEPT !.status = s] : s \in {"pending", "received", "bogus"}}
  \cup {[ListDonationsDefault EXCEPT !.next_token = t] : t \in GarbageTokens}

\* the store may reject BETWEEN with a lower bound above the upper one
RejectChoices(start_date, end_date) ==
  IF start_date > 0 /\ end_date > 0 /\ start_date > end_date THEN BOOLEAN ELSE {TRUE}

ListDonations ==
  \E caller \in Callers, params \in ListDonationsRequests :
  \E rejects_reversed \in RejectChoices(params.start_date, params.end_date) :
    /\ OnlyDefaultFrom(caller, params, ListDonationsDefault, "DonorCoordinator")
    /\ list_donations(caller, params, rejects_reversed)

\* the client asks for the next page: the same request with the next_token
\* of the response
ListDonationsNext ==
  /\ last.op = "list_donations"
  /\ resp.status = 200
  /\ resp.data.pagination.next_token # <<>>
  /\ list_donations(last.caller,
                    [last.params EXCEPT !.next_token = resp.data.pagination.next_token],
                    TRUE)

ListDonorsDefault == [page |-> NoParam, page_size |-> NoParam, next_token |-> <<>>]

ListDonorsRequests ==
  {[ListDonorsDefault EXCEPT !.page_size = s] : s \in PageSizeInputs}
  \cup {[ListDonorsDefault EXCEPT !.page = p] : p \in {IntParam(0), BadParam}}
  \cup {[ListDonorsDefault EXCEPT !.next_token = t] : t \in GarbageTokens}

ListDonors ==
  \E caller \in Callers, params \in ListDonorsRequests :
    /\ OnlyDefaultFrom(caller, params, ListDonorsDefault, "DonorCoordinator")
    /\ list_donors(caller, params)

NextDonationList ==
  \/ CreateDonor
  \/ CreateDonationFor
  \/ ListDonations
  \/ ListDonationsNext
  \/ ListDonors

SpecDonationList == Init /\ [][NextDonationList]_vars

\* ------------------------------------------------------- create_recipient
RecipientIds == 1 .. MaxRecipients

create_recipient(caller, body, recipient_id) ==
  LET req == [op |-> "create_recipient", caller |-> caller, body |-> body]
      gate == Gate(caller, "DistributionManager")
      name == validate_string(body.name, 2, 100)
      \* contact_email is validated when it is present and not empty
      contact_email ==
        IF body.contact_email = <<>> THEN [ok |-> TRUE, value |-> <<>>]
        ELSE validate_email(body.contact_email)
      household_size == validate_number(body.household_size, TRUE, 1)
      required == [PK |-> <<"RECIPIENT", recipient_id>>, SK |-> "PROFILE",
                   recipient_id |-> recipient_id, name |-> name.value,
                   household_size |-> household_size.value,
                   GSI1PK |-> "RECIPIENTS", GSI1SK |-> Lower(name.value)]
      recipient ==
        IF contact_email.value = <<>> THEN required
        ELSE [k \in (DOMAIN required) \cup {"contact_email"} |->
                IF k = "contact_email" THEN contact_email.value ELSE required[k]]
      reject(r) == /\ resp' = r
                   /\ ops' = <<>>
                   /\ UNCHANGED <<recipients, userVars, stamps>>
  IN
  /\ last' = req
  /\ UNCHANGED procVars
  /\ UNCHANGED <<clock, invVars, donVars, distVars, donors, userVars>>
  /\ IF gate # "pass" THEN reject(Raised("AUTHORIZATION_ERROR"))
     ELSE IF body.fault = "bad_json" THEN reject(ErrorResp(500, "ERROR_500"))
     ELSE IF body.fault \in {"missing_field", "bad_field"} \/ ~name.ok
             \/ ~contact_email.ok \/ ~household_size.ok
       THEN reject(ErrorResp(400, "VALIDATION_ERROR"))
     ELSE
       /\ recipient_id # 0
       /\ \E rejected \in EmptyKeyChoices(recipient.GSI1SK) :
            IF rejected
            THEN /\ resp' = ErrorResp(500, "DATABASE_ERROR")
                 /\ ops' = <<"put_item">>
                 /\ UNCHANGED <<recipients, userVars, stamps>>
            ELSE /\ recipients' = Put(recipients, recipient_id, recipient)
                 /\ stamps' = put_item(stamps, ItemKey("RECIPIENT", recipient_id, 0), 0, clock)
                 /\ ops' = <<"put_item">>
                 /\ resp' = Success(201, [PublicFields(recipient) EXCEPT
                                           !.household_size = JsonInt(@)])

\* ------------------------------------------------------ list_distributions
T_DISTRIBUTION == <<68, 73, 83, 84, 82, 73, 66, 85, 84, 73, 79, 78, 35>>
T_DISTRIBUTIONS == <<68, 73, 83, 84, 82, 73, 66, 85, 84, 73, 79, 78, 83>>
T_RECIPIENT == <<82, 69, 67, 73, 80, 73, 69, 78, 84, 35>>

\* the RECIPIENT#<id> items of one partition of GSI2 (recipient_id # 0) or of
\* the DISTRIBUTIONS partition of GSI1; an item that update_item created
\* carries no index partition key and is in neither index
DistributionEntries(recipient_id) ==
  {[sk |-> NumText(mirrors[m].gsi2sk),
    id |-> m[1],
    key |-> IF recipient_id # 0
            THEN IndexKey(T_GSI2PK, T_RECIPIENT \o NumText(mirrors[m].gsi2pk), T_GSI2SK,
                          NumText(mirrors[m].gsi2sk), T_DISTRIBUTION \o NumText(m[1]),
                          T_RECIPIENT \o NumText(m[2]))
            ELSE IndexKey(T_GSI1PK, T_DISTRIBUTIONS, T_GSI1SK,
                          NumText(mirrors[m].gsi1sk), T_DISTRIBUTION \o NumText(m[1]),
                          T_RECIPIENT \o NumText(m[2])),
    item |-> [distribution_id |-> m[1], recipient_id |-> m[2],
              distribution_date |-> mirrors[m].distribution_date,
              status |-> mirrors[m].status]] :
     m \in {e \in DOMAIN mirrors :
              /\ mirrors[e].gsi2pk # 0
              /\ recipient_id # 0 => mirrors[e].gsi2pk = recipient_id}}

\* the response to a query paged in memory: items[start_idx:end_idx] of the
\* items found, total_count their number; a failed query is a 500
SliceResponse(result, page, page_size) ==
  IF ~result.ok THEN ErrorResp(500, result.code)
  ELSE Paginated(PageSlice(result.items, page, page_size), result.count, page, page_size,
                 <<>>)

list_distributions(caller, params, rejects_reversed) ==
  LET gate == Gate(caller, "DistributionManager")
      page == ParseInt(params.page, 1)
      page_size == ParseInt(params.page_size, DEFAULT_PAGE_SIZE)
      req == [op |-> "list_distributions", caller |-> caller, params |-> params]
      finish(r, o) == /\ resp' = r
                      /\ ops' = o
  IN
  /\ last' = req
  /\ set_context("list_distributions", caller, gate = "pass")
  /\ UNCHANGED inflight
  /\ UNCHANGED <<clock, invVars, donVars, distVars, dirVars, stamps>>
  /\ IF gate # "pass" THEN finish(Raised("AUTHORIZATION_ERROR"), <<>>)
     ELSE IF ~page.ok \/ page.v < 1 THEN finish(ErrorResp(400, "VALIDATION_ERROR"), <<>>)
     ELSE IF ~page_size.ok \/ page_size.v < 1 \/ page_size.v > MAX_PAGE_SIZE
       THEN finish(ErrorResp(400, "VALIDATION_ERROR"), <<>>)
     ELSE IF \/ params.start_date # 0 /\ ~validate_date(params.start_date)
             \/ params.end_date # 0 /\ ~validate_date(params.end_date)
       THEN finish(ErrorResp(400, "VALIDATION_ERROR"), <<>>)
     ELSE finish(SliceResponse(Query(DistributionEntries(params.recipient_id),
                                     DateCondition(params.start_date, params.end_date),
                                     params.status, 0, NullVal, FALSE, rejects_reversed),
                               page.v, page_size.v),
                 <<"query">>)

\* ---------------------------------------------------- get_recipient_history
\* recipient_id 0: no recipientId path parameter
get_recipient_history(caller, recipient_id, params, rejects_reversed) ==
  LET gate == Gate(caller, "DistributionManager")
      page == ParseInt(params.page, 1)
      page_size == ParseInt(params.page_size, DEFAULT_PAGE_SIZE)
      p == IF page.v < 1 THEN 1 ELSE page.v
      size == IF page_size.v < 1 \/ page_size.v > MAX_PAGE_SIZE
              THEN DEFAULT_PAGE_SIZE ELSE page_size.v
      req == [op |-> "get_recipient_history", caller |-> caller,
              params |-> [params EXCEPT !.recipient_id = recipient_id]]
      finish(r, o) == /\ resp' = r
                      /\ ops' = o
  IN
  /\ last' = req
  /\ UNCHANGED procVars
  /\ UNCHANGED <<clock, invVars, donVars, distVars, dirVars, stamps>>
  /\ IF gate # "pass" THEN finish(Raised("AUTHORIZATION_ERROR"), <<>>)
     ELSE IF recipient_id = 0 THEN finish(ErrorResp(400, "ERROR_400"), <<>>)
     ELSE IF ~page.ok \/ ~page_size.ok THEN finish(ErrorResp(500, "ERROR_500"), <<>>)
     ELSE IF recipient_id \notin DOMAIN recipients
       THEN finish(ErrorResp(404, "NOT_FOUND"), <<"get_item">>)
     ELSE finish(SliceResponse(Query(DistributionEntries(recipient_id),
                                     DateCondition(params.start_date, params.end_date),
                                     NULL, size * p, NullVal, FALSE, rejects_reversed),
                               p, size),
                 <<"get_item", "query">>)

\* --------------------------------------------- listing: distribution side
RecipientDefault ==
  [name |-> <<"a", "b">>, contact_email |-> <<>>, household_size |-> 1, fault |-> "none"]

RecipientBodies ==
  {RecipientDefault, [RecipientDefault EXCEPT !.name = <<"a">>]}
  \cup {[RecipientDefault EXCEPT !.fault = f] : f \in {"bad_json", "missing_field", "bad_field"}}

CreateRecipient ==
  \E caller \in Callers, body \in RecipientBodies :
    /\ OnlyDefaultFrom(caller, body, RecipientDefault, "DistributionManager")
    /\ create_recipient(caller, body, FreshId(RecipientIds, DOMAIN recipients))

ListedDistributionIds == 1 .. MaxListed

\* distributions to the recipients 1 and MaxRecipients + 1 on chosen dates
CreateDistributionFor ==
  \E recipient_id \in {1, MaxRecipients + 1}, distribution_date \in 1 .. MaxDate :
    create_distribution(User("DistributionManager"),
                        [DistributionDefault EXCEPT !.recipient_id = recipient_id,
                                                    !.distribution_date = distribution_date],
                        clock, FreshId(ListedDistributionIds, DOMAIN distributions), 0)

ListDistributionsDefault ==
  [page |-> NoParam, page_size |-> NoParam, recipient_id |-> 1, status |-> NULL,
   start_date |-> 0, end_date |-> 0]

\* the query parameters of list_distributions and of get_recipient_history,
\* which takes its recipient from the path and no status
DateRangeRequests ==
  {[ListDistributionsDefault EXCEPT !.page_size = s] : s \in PageSizeInputs}
  \cup {[ListDistributionsDefault EXCEPT !.page = p] : p \in {IntParam(0), BadParam}}
  \cup {[ListDistributionsDefault EXCEPT !.start_date = a, !.end_date = b,
                                         !.page_size = s, !.page = p] :
          a \in 0 .. MaxDate, b \in 0 .. MaxDate, s \in {NoParam, IntParam(1)},
          p \in {NoParam, IntParam(2)}}

ListDistributionsRequests ==
  DateRangeRequests
  \cup {[r EXCEPT !.recipient_id = 0] : r \in DateRangeRequests}
  \cup {[ListDistributionsDefault EXCEPT !.start_date = 0 - 1],
        [ListDistributionsDefault EXCEPT !.end_date = 0 - 1]}
  \cup {[ListDistributionsDefault EXCEPT !.status = s] : s \in {"scheduled", "bogus"}}

ListDistributions ==
  \E caller \in Callers, params \in ListDistributionsRequests :
  \E rejects_reversed \in RejectChoices(params.start_date, params.end_date) :
    /\ OnlyDefaultFrom(caller, params, ListDistributionsDefault, "DistributionManager")
    /\ list_distributions(caller, params, rejects_reversed)

GetRecipientHistory ==
  \E caller \in Callers, recipient_id \in 0 .. MaxRecipients + 1,
     params \in DateRangeRequests :
  \E rejects_reversed \in RejectChoices(params.start_date, params.end_date) :
    /\ OnlyDefaultFrom(caller, params, ListDistributionsDefault, "DistributionManager")
    /\ get_recipient_history(caller, recipient_id, params, rejects_reversed)

NextDistributionList ==
  \/ CreateRecipient
  \/ CreateDistributionFor
  \/ ListDistributions
  \/ GetRecipientHistory

SpecDistributionList == Init /\ [][NextDistributionList]_vars

\* ---------------------------------------------------------------- get_donor
get_donor(caller, donor_id) ==
  LET req == [op |-> "get_donor", caller |-> caller, donor_id |-> donor_id]
      gate == Gate(caller, "DonorCoordinator")
  IN
  /\ last' = req
  /\ UNCHANGED procVars
  /\ UNCHANGED <<clock, invVars, donVars, distVars, dirVars, stamps>>
  /\ IF gate # "pass" THEN resp' = Raised("AUTHORIZATION_ERROR") /\ ops' = <<>>
     ELSE IF donor_id = 0 THEN resp' = ErrorResp(404, "NOT_FOUND") /\ ops' = <<>>
     ELSE IF donor_id \notin DOMAIN donors
       THEN resp' = ErrorResp(404, "NOT_FOUND") /\ ops' = <<"get_item">>
     ELSE /\ resp' = Success(200, PublicFields(donors[donor_id]))
          /\ ops' = <<"get_item">>

\* ------------------------------------------------------------ get_recipient
get_recipient(caller, recipient_id) ==
  LET req == [op |-> "get_recipient", caller |-> caller, recipient_id |-> recipient_id]
      gate == Gate(caller, "DistributionManager")
  IN
  /\ last' = req
  /\ UNCHANGED procVars
  /\ UNCHANGED <<clock, invVars, donVars, distVars, dirVars, stamps>>
  /\ IF gate # "pass" THEN resp' = Raised("AUTHORIZATION_ERROR") /\ ops' = <<>>
     ELSE IF recipient_id = 0 THEN resp' = ErrorResp(400, "ERROR_400") /\ ops' = <<>>
     ELSE IF recipient_id \notin DOMAIN recipients
       THEN resp' = ErrorResp(404, "NOT_FOUND") /\ ops' = <<"get_item">>
     ELSE /\ resp' = Success(200, [PublicFields(recipients[recipient_id]) EXCEPT
                                     !.household_size = DecimalEncoder(@)])
          /\ ops' = <<"get_item">>

\* -------------------------------------------------------- donor and recipient
NameInputsOfProfiles == {<<"a", "b">>, <<" ", "a", "b", " ">>, <<"a">>, <<" ", " ">>}
EmailInputs ==
  {<<"a", "@", "b", ".", "c", "c">>, <<"A", "@", "B", ".", "c", "C">>,
   <<"a", "@", "b", ".", "c">>, <<"a", " ", "@", "b", ".", "c", "c">>, <<>>}

DonorProfileBodies ==
  [name : NameInputsOfProfiles, email : EmailInputs, fault : {"none"}]
  \cup DonorBodies

CreateDonorProfile ==
  \E caller \in Callers, body \in DonorProfileBodies :
    /\ OnlyDefaultFrom(caller, body, DonorDefault, "DonorCoordinator")
    /\ create_donor(caller, body, FreshId(DonorIds, DOMAIN donors))

RecipientProfileBodies ==
  [name : NameInputsOfProfiles, contact_email : EmailInputs, household_size : 0 .. 2,
   fault : {"none"}]
  \cup RecipientBodies

CreateRecipientProfile ==
  \E caller \in Callers, body \in RecipientProfileBodies :
    /\ OnlyDefaultFrom(caller, body, RecipientDefault, "DistributionManager")
    /\ create_recipient(caller, body, FreshId(RecipientIds, DOMAIN recipients))

GetDonor ==
  \E caller \in Callers, donor_id \in 0 .. MaxDonors + 1 : get_donor(caller, donor_id)

GetRecipient ==
  \E caller \in Callers, recipient_id \in 0 .. MaxRecipients + 1 :
    get_recipient(caller, recipient_id)

NextDirectory ==
  \/ CreateDonorProfile
  \/ CreateRecipientProfile
  \/ GetDonor
  \/ GetRecipient

SpecDirectory == Init /\ [][NextDirectory]_vars

\* an adjust_inventory request that passes the permission check and validation
AdjustAccepted(req) ==
  /\ req.op = "adjust_inventory"
  /\ req.caller.claims
  /\ req.caller.role \in {"Admin", "DonorCoordinator", "DistributionManager"}
  /\ req.body.fault = "none"
  /\ req.body.category \in VALID_CATEGORIES
  /\ Len(req.body.item_name) >= 1

\* C1: after every adjust_inventory request, whatever the categories, names
\* and signs of the quantity changes so far, every stored inventory item has
\* quantity >= 0.
C1_QuantityNeverNegative == \A i \in inventory : i.quantity >= 0

\* an existing item was adjusted by more than it held and was floored at zero
C1_Witness ==
  /\ AdjustAccepted(last)
  /\ last.existed
  /\ last.old_quantity + last.body.quantity_change < 0
  /\ resp.status = 200
  /\ resp.data \in inventory

CompletionAccepted(req) ==
  /\ req.op = "complete_distribution"
  /\ req.caller.claims
  /\ req.caller.role \in {"Admin", "DonorCoordinator", "DistributionManager", "Volunteer"}
  /\ req.distribution_id # 0
  /\ req.body.fault = "none"
  /\ (req.body.actual_items.present =>
        \A k \in 1 .. Len(req.body.actual_items.v) :
          /\ req.body.actual_items.v[k].item_index >= 0
          /\ req.body.actual_items.v[k].quantity >= 0)

WriteOps == {"put_item", "update_item", "delete_item"}

\* C2: complete_distribution on a distribution whose stored status is already
\* completed answers ValidationError (400) and writes nothing: the donation
\* records, the donation items, the METADATA record and the RECIPIENT mirror
\* stay as they were.
C2_CompleteOnCompletedRejected ==
  [][(/\ CompletionAccepted(last')
      /\ last'.distribution_id \in DOMAIN distributions
      /\ distributions[last'.distribution_id].status = "completed")
     => /\ resp'.status = 400
        /\ resp'.code = "VALIDATION_ERROR"
        /\ ~resp'.raised
        /\ \A k \in 1 .. Len(ops') : ops'[k] \notin WriteOps
        /\ UNCHANGED <<donations, donationItems, distributions, mirrors>>]_vars

\* a permitted caller asked to complete a completed distribution
C2_Witness ==
  /\ CompletionAccepted(last)
  /\ last.was_completed
  /\ resp.status = 400
  /\ distributions[last.distribution_id].status = "completed"
  /\ distributions[last.distribution_id].completed_at > 0

\* C3 as stated: a distribution whose status is completed never has another
\* status afterwards.
C3_CompletedStaysCompleted ==
  [][\A d \in DOMAIN distributions :
       distributions[d].status = "completed" =>
         d \in DOMAIN distributions' /\ distributions'[d].status = "completed"]_vars

\* C3: a completed distribution stays stored, and its status changes only by
\* an update_distribution request for it that carries another status;
\* create_distribution and complete_distribution never move it, and neither
\* does an update without a status.
C3_CompletedLeftOnlyByStatusUpdate ==
  [][\A d \in DOMAIN distributions :
       distributions[d].status = "completed" =>
         /\ d \in DOMAIN distributions'
         /\ (distributions'[d].status # "completed" =>
               /\ last'.op = "update_distribution"
               /\ last'.distribution_id = d
               /\ last'.body.status # NULL
               /\ last'.body.status = distributions'[d].status)]_vars

\* an update put a completed distribution back to scheduled
C3_Witness ==
  /\ last.op = "update_distribution"
  /\ last.was_completed
  /\ resp.status = 200
  /\ distributions[last.distribution_id].status = "scheduled"
  /\ distributions[last.distribution_id].completed_at > 0

\* the item records stored for a donation
ItemsOf(donation_id) == {k \in DOMAIN donationItems : k[1] = donation_id}

\* C5: an accepted create_donation with n >= 1 items stores one METADATA
\* record of status pending and n item records whose sort keys are the 4-digit
\* indices 0..n-1 in input order; an item record keeps its index under every
\* later operation, and no stored item quantity is negative.
C5_DonationItemsIndexed ==
  /\ [](/\ \A k \in DOMAIN donationItems :
             /\ k[1] \in DOMAIN donations
             /\ k[2] = ItemSK(donationItems[k].item_index)
             /\ Len(k[2]) = 4
             /\ donationItems[k].quantity >= 0
        /\ \A d \in DOMAIN donations :
             /\ ItemsOf(d) # {}
             /\ {donationItems[k].item_index : k \in ItemsOf(d)}
                  = 0 .. Cardinality(ItemsOf(d)) - 1
        /\ (last.op = "create_donation" /\ resp.status = 201) =>
             LET d == resp.data.donation_id
                 items == last.body.items
             IN /\ d \in DOMAIN donations
                /\ donations[d].status = "pending"
                /\ Cardinality(ItemsOf(d)) = Len(items)
                /\ Len(items) >= 1
                /\ \A i \in 0 .. Len(items) - 1 :
                     /\ <<d, ItemSK(i)>> \in DOMAIN donationItems
                     /\ donationItems[<<d, ItemSK(i)>>].item_index = i
                     /\ donationItems[<<d, ItemSK(i)>>].name = items[i + 1].name
                     /\ donationItems[<<d, ItemSK(i)>>].quantity = items[i + 1].quantity)
  /\ [][\A k \in DOMAIN donationItems :
          /\ k \in DOMAIN donationItems'
          /\ donationItems'[k].item_index = donationItems[k].item_index]_vars

\* a donation of two items was stored and then updated
C5_Witness ==
  /\ last.op = "update_donation"
  /\ resp.status = 200
  /\ Cardinality(ItemsOf(last.donation_id)) = 2
  /\ <<last.donation_id, <<0, 0, 0, 1>>>> \in DOMAIN donationItems
  /\ donations[last.donation_id].status = "received"

\* a request whose body fails the handler's validation
InvalidRequest(req) ==
  \/ /\ req.op = "create_donation"
     /\ \/ req.body.fault \in {"missing_field", "bad_optional"}
        \/ Strip(req.body.donor_id) = <<>>
        \/ req.body.items = <<>>
        \/ \E k \in 1 .. Len(req.body.items) :
             req.body.items[k].quantity < 0 \/ Strip(req.body.items[k].name) = <<>>
  \/ /\ req.op = "update_donation"
     /\ \/ req.body.fault = "bad_notes"
        \/ req.body.status \notin {NULL, "pending", "received", "distributed"}

\* C10: a request whose body or parameters fail validation is rejected before
\* the handler has issued any store operation, read or write.
C10_ValidationPrecedesStore == InvalidRequest(last) => ops = <<>>

\* a date d lies in the range of the bounds given; 0 is a bound not given
InDateRange(start_date, end_date, d) ==
  /\ start_date # 0 => start_date <= d
  /\ end_date # 0 => d <= end_date

\* the donation ids of the items of a list_donations response, in order
ListedDonationsOf(r) == [k \in 1 .. Len(r.data.items) |-> r.data.items[k].donation_id]

\* C6: list_donations with a donor_id, a start_date and an end_date (no
\* status, no next_token) answers with exactly the stored donations of that
\* donor whose date lies between the two dates, their ends included, the most
\* recent first.
C6_ListByDonorAndDateExact ==
  ( /\ last.op = "list_donations"
    /\ resp.status = 200
    /\ last.params.donor_id # <<>>
    /\ last.params.start_date # 0
    /\ last.params.end_date # 0
    /\ last.params.status = NULL
    /\ last.params.next_token = <<>> )
  => LET want == {d \in DOMAIN donations :
                    /\ donations[d].donor_id = last.params.donor_id
                    /\ InDateRange(last.params.start_date, last.params.end_date,
                                   donations[d].gsi1sk)}
         ids == ListedDonationsOf(resp)
     IN /\ Len(ids) = Cardinality(want)
        /\ {ids[k] : k \in 1 .. Len(ids)} = want
        /\ \A k \in 1 .. Len(ids) : \A l \in k .. Len(ids) :
             donations[ids[k]].gsi1sk >= donations[ids[l]].gsi1sk

\* the distribution ids of the items of a response
ListedDistributionsOf(r) == {r.data.items[k].distribution_id : k \in 1 .. Len(r.data.items)}

\* C7: a list_distributions or get_recipient_history answer (no status filter)
\* selects exactly the records of the partition whose date d satisfies
\* start_date <= d <= end_date when both are given, d >= start_date or
\* d <= end_date when one is given, and all records when none is: every item
\* returned is such a record, no record is returned twice, and the page
\* holds as many of them as the page number and size leave.
C7_DateRangeSelects ==
  ( /\ last.op \in {"list_distributions", "get_recipient_history"}
    /\ resp.status = 200
    /\ last.params.status = NULL )
  => LET selected == {m \in DOMAIN mirrors :
                        /\ last.params.recipient_id # 0 => m[2] = last.params.recipient_id
                        /\ InDateRange(last.params.start_date, last.params.end_date,
                                       mirrors[m].distribution_date)}
         page == resp.data.pagination.page
         page_size == resp.data.pagination.page_size
         left == Cardinality(selected) - (page - 1) * page_size
     IN /\ ListedDistributionsOf(resp) \subseteq {m[1] : m \in selected}
        /\ Cardinality(ListedDistributionsOf(resp)) = Len(resp.data.items)
        /\ Len(resp.data.items) = Max(0, Min(page_size, left))

\* a range whose two ends are the same date returned the record of that date
\* and left another record out
C7_Witness ==
  /\ last.op = "list_distributions"
  /\ resp.status = 200
  /\ last.params.start_date # 0
  /\ last.params.start_date = last.params.end_date
  /\ Len(resp.data.items) >= 1
  /\ resp.data.items[1].distribution_date = last.params.end_date
  /\ \E m \in DOMAIN mirrors : mirrors[m].distribution_date # last.params.end_date

\* C8: a token that encode_pagination_token made decodes to the key it was
\* made from; for a next_token that is no such token decode_pagination_token
\* returns None and list_donations answers 400 VALIDATION_ERROR without a
\* query.
C8_TokenRoundTripGarbageRejected ==
  /\ \A e \in DonationEntries(<<>>) \cup DonationEntries(<<"x">>) \cup DonorEntries :
       decode_pagination_token(encode_pagination_token(e.key)) = e.key
  /\ ( /\ last.op = "list_donations"
       /\ ~resp.raised
       /\ last.params.next_token \in GarbageTokens )
     => /\ decode_pagination_token(last.params.next_token) = NullVal
        /\ resp.status = 400
        /\ resp.code = "VALIDATION_ERROR"
        /\ ops = <<>>

\* C9: a list request whose page_size is a number outside 1..100 is answered
\* 400 VALIDATION_ERROR and reaches no store operation.
C9_PageSizeOutOfRangeRejected ==
  ( /\ last.op \in {"list_donations", "list_donors", "list_distributions",
                    "get_recipient_history"}
    /\ ~resp.raised
    /\ last.params.page = NoParam
    /\ last.params.page_size.given
    /\ last.params.page_size.numeric
    /\ (last.params.page_size.v < 1 \/ last.params.page_size.v > MAX_PAGE_SIZE) )
  => /\ resp.status = 400
     /\ resp.code = "VALIDATION_ERROR"
     /\ ops = <<>>

\* a request whose caller is authenticated but stands below the role the
\* handler declares with require_role, or lacks the permission it checks
Unauthorized(req) ==
  /\ req.op \in {"create_distribution", "update_distribution", "complete_distribution",
                 "create_donation", "update_donation", "adjust_inventory"}
  /\ req.caller.claims
  /\ CASE req.op \in {"create_distribution", "update_distribution"} ->
            ~has_role(req.caller.role, "DistributionManager")
       [] req.op = "complete_distribution" -> ~has_role(req.caller.role, "Volunteer")
       [] req.op \in {"create_donation", "update_donation"} ->
            ~has_role(req.caller.role, "DonorCoordinator")
       [] req.op = "adjust_inventory" ->
            ~has_permission(req.caller.role, "inventory", "adjust")

\* C11: a request whose caller role is below the handler's declared minimum
\* role, or lacks its declared permission, issues no store operation and is
\* answered with an error envelope of status 403 and code AUTHORIZATION_ERROR.
C11_UnauthorizedAnswered403 ==
  Unauthorized(last) => (ops = <<>> /\ resp = ErrorResp(403, "AUTHORIZATION_ERROR"))

\* a request whose body is no JSON text, from a caller who passes the role gate
MalformedBody(req) ==
  /\ req.op \in {"create_donation", "update_donation"}
  /\ req.caller.claims
  /\ has_role(req.caller.role, "DonorCoordinator")
  /\ req.body.fault = "bad_json"
  /\ (req.op = "update_donation" => req.donation_id # 0)

\* C12: a request body that is not valid JSON is answered with a 400
\* VALIDATION_ERROR envelope, never with a 500.
C12_MalformedInputIs400 ==
  MalformedBody(last) => resp = ErrorResp(400, "VALIDATION_ERROR")

\* a create_donor or create_recipient request that was answered 201
Created(req, r) ==
  /\ req.op \in {"create_donor", "create_recipient"}
  /\ ~r.raised
  /\ r.status = 201

\* the fields a get of the created id answers with, the number by its value
ReadBack(req, r) ==
  IF req.op = "create_donor"
  THEN PublicFields(donors'[r.data.donor_id])
  ELSE [PublicFields(recipients'[r.data.recipient_id]) EXCEPT
          !.household_size = DecimalEncoder(@).v]

\* C13: for every valid create_donor or create_recipient input, the created
\* id is stored, a get of it answers with the field values the create response
\* reported (strings trimmed, e-mail lower-cased), and neither response
\* carries an internal key attribute.
C13_CreationRoundTrip ==
  [][/\ Created(last', resp') =>
          /\ ReadBack(last', resp')
               = IF last'.op = "create_donor" THEN resp'.data
                 ELSE [resp'.data EXCEPT !.household_size = @.v]
          /\ resp'.data.name = Strip(last'.body.name)
          /\ (DOMAIN resp'.data) \cap INTERNAL_KEYS = {}
          /\ last'.op = "create_donor" => resp'.data.email = Lower(last'.body.email)
          /\ (last'.op = "create_recipient" /\ last'.body.contact_email # <<>>) =>
               resp'.data.contact_email = Lower(last'.body.contact_email)
     /\ (last'.op = "get_donor" /\ resp'.status = 200) =>
          resp'.data = PublicFields(donors[last'.donor_id])
     /\ (last'.op = "get_recipient" /\ resp'.status = 200) =>
          /\ [resp'.data EXCEPT !.household_size = @.v]
               = PublicFields(recipients[last'.recipient_id])
          /\ (DOMAIN resp'.data) \cap INTERNAL_KEYS = {}]_vars

\* a created donor was read back with a trimmed name and a lower-case e-mail,
\* while a recipient with a contact e-mail and a household of two is stored
C13_Witness ==
  /\ last.op = "get_donor"
  /\ resp.status = 200
  /\ resp.data.name = <<"a", "b">>
  /\ resp.data.email = <<"a", "@", "b", ".", "c", "c">>
  /\ \E r \in DOMAIN recipients :
       /\ recipients[r].household_size = 2
       /\ "contact_email" \in DOMAIN recipients[r]

\* C14: created_at of an item is set when the item is first written and no
\* later put_item or update_item on its key changes it, and after every step
\* each stored item has a created_at that is not later than its updated_at.
C14_CreatedAtKept ==
  [][/\ \A k \in DOMAIN stamps :
          k \in DOMAIN stamps' /\ stamps'[k].created_at = stamps[k].created_at
     /\ \A k \in DOMAIN stamps' :
          /\ stamps'[k].created_at # 0
          /\ stamps'[k].created_at <= stamps'[k].updated_at]_vars

\* the audit records stored for an item
AuditRecordsOf(log, item_id) == {a \in log : a.item_id = item_id}

\* C15: every successful adjust_inventory adds exactly one audit record for
\* the adjusted item, and no step overwrites or removes a stored audit record.
C15_AuditAppendOnly ==
  [][/\ audit \subseteq audit'
     /\ (AdjustAccepted(last') /\ resp'.status = 200) =>
          Cardinality(AuditRecordsOf(audit', resp'.data.item_id))
            = Cardinality(AuditRecordsOf(audit, resp'.data.item_id)) + 1]_vars

\* ---------------------------------------------------- refused store writes
\* the highest number of a store write the store may refuse
MaxFailAt == 2

\* the writes of one invocation the store may refuse (0: none)
FailAts == 0 .. MaxFailAt

CreateDistributionFailing ==
  \E now \in Nows, fail_at \in FailAts :
    create_distribution(User("DistributionManager"), DistributionDefault, now,
                        FreshId(DistributionIds, DOMAIN distributions), fail_at)

UpdateDistributionFailing ==
  \E distribution_id \in DistributionIds, fail_at \in FailAts,
     body \in {b \in UpdateDistributionBodies : b.fault = "none"} :
    update_distribution(User("DistributionManager"), distribution_id, body, fail_at)

CompleteDistributionFailing ==
  \E distribution_id \in DistributionIds, now \in Nows, fail_at \in FailAts,
     body \in {CompletionDefault, [CompletionDefault EXCEPT !.completion_notes = TRUE]} :
    complete_distribution(User("Volunteer"), distribution_id, body, now, fail_at)

\* the distribution life cycle with store writes that may be refused
NextPartialFailure ==
  \/ CreateDonationPlain
  \/ CreateDistributionFailing
  \/ UpdateDistributionFailing
  \/ CompleteDistributionFailing

SpecPartialFailure == Init /\ [][NextPartialFailure]_vars

\* the number of store writes among the store operations of an invocation
RECURSIVE WritesIssued(_)
WritesIssued(o) ==
  IF o = <<>> THEN 0
  ELSE (IF Head(o) \in {"put_item", "update_item"} THEN 1 ELSE 0) + WritesIssued(Tail(o))

\* the step is a multi-write operation whose second store write was refused
\* after its first one was accepted
SecondWriteRefused ==
  /\ last'.op \in {"create_distribution", "update_distribution", "complete_distribution"}
  /\ last'.fail_at = 2
  /\ WritesIssued(ops') = 2

\* the first write of the step is in the store, the second one is not
FirstWriteKept ==
  /\ mirrors' = mirrors
  /\ \E distribution_id \in DistributionIds :
       /\ distribution_id \in DOMAIN distributions'
       /\ ItemKey("DISTRIBUTION", distribution_id, 0) \in DOMAIN stamps'
       /\ last'.op = "create_distribution" => distribution_id \notin DOMAIN distributions
       /\ last'.op = "complete_distribution" =>
            /\ distributions[distribution_id].status # "completed"
            /\ distributions'[distribution_id].status = "completed"
       /\ last'.op = "update_distribution" =>
            /\ distribution_id = last'.distribution_id
            /\ last'.body.status # NULL =>
                 distributions'[distribution_id].status = last'.body.status

CreateDistributionWarm ==
  \E caller \in Callers, now \in Nows :
    create_distribution(caller, DistributionDefault, now,
                        FreshId(DistributionIds, DOMAIN distributions), 0)

UpdateDistributionWarm ==
  \E caller \in Callers, distribution_id \in DistributionIds :
    update_distribution(caller, distribution_id, UpdateDistributionDefault, 0)

CompleteDistributionWarm ==
  \E caller \in Callers, distribution_id \in DistributionIds, now \in Nows :
    complete_distribution(caller, distribution_id, CompletionDefault, now, 0)

ListDistributionsWarm ==
  \E caller \in Callers :
    list_distributions(caller, ListDistributionsDefault, FALSE)

\* the distribution functions, each invoked again and again in its process
NextProcess ==
  \/ CreateDistributionWarm
  \/ UpdateDistributionWarm
  \/ CompleteDistributionWarm
  \/ ListDistributionsWarm

SpecProcess == InitWarm /\ [][NextProcess]_vars

\* C17: an invocation finds nothing in its process that an earlier invocation
\* wrote: the first log line of every invocation that enters its handler
\* carries the logger context of the process start, whatever was handled
\* before in the same process.
C17_NothingLeftInProcess ==
  [][(last'.op \in LoggingModules /\ ~resp'.raised) =>
       FirstLogLine(last'.op) = ProcessStart]_vars

\* the distribution item refers to an ITEM record create_donation stored
RefersToStoredItem(item) ==
  <<item.donation_id, ItemSK(item.item_index)>> \in DOMAIN donationItems

\* C18: a completion that answers 200 for a distribution whose stored items
\* refer to items of donations made by create_donation leaves each such
\* donation item with its quantity lowered by the distributed quantity, not
\* below zero, and the distribution completed.
C18_CompletionLowersDonationItems ==
  [][(/\ last'.op = "complete_distribution"
      /\ resp'.status = 200
      /\ ~last'.body.actual_items.present)
     => LET items == distributions[last'.distribution_id].items IN
        /\ distributions'[last'.distribution_id].status = "completed"
        /\ \A k \in 1 .. Len(items) :
             RefersToStoredItem(items[k]) =>
               LET sk == <<items[k].donation_id, ItemSK(items[k].item_index)>> IN
               donationItems'[sk].quantity =
                 Max(0, donationItems[sk].quantity - items[k].quantity)]_vars

\* ------------------------------------- complete_distribution, step by step
\* Every store operation of the handler is a step of its own, so that the
\* steps of two requests interleave. The requests come from a Volunteer with
\* an empty body.
storeVars == <<inventory, audit, donations, donationItems, distributions, mirrors,
               donors, recipients, users, cognito, stamps>>

\* the request is answered
Answer(r, response) == inflight' = [inflight EXCEPT ![r].pc = "done", ![r].resp = response]

\* db.get_item of the METADATA record and the already-completed check (lines
\* 204-219)
complete_get_item(r, distribution_id) ==
  LET caller == User("Volunteer")
      request == [op |-> "complete_distribution", pc |-> "update_inventory",
                  caller |-> caller, distribution_id |-> distribution_id,
                  distribution |-> EmptyMeta, items_to_distribute |-> <<>>,
                  donation_items |-> <<>>, adjustments |-> <<>>, completed_at |-> 0,
                  resp |-> ErrorResp(0, "NONE")]
  IN
  /\ inflight[r] = Idle
  /\ set_context("complete_distribution", caller, TRUE)
  /\ UNCHANGED <<clock, storeVars, last, resp, ops>>
  /\ IF distribution_id \notin DOMAIN distributions
     THEN inflight' = [inflight EXCEPT ![r] = [request EXCEPT !.pc = "done",
                                                 !.resp = ErrorResp(404, "NOT_FOUND")]]
     ELSE IF AlreadyCompleted(distributions[distribution_id])
     THEN inflight' = [inflight EXCEPT
                         ![r] = [request EXCEPT !.pc = "done",
                                   !.resp = ErrorResp(400, "VALIDATION_ERROR")]]
     ELSE inflight' = [inflight EXCEPT
                         ![r] = [request EXCEPT
                                   !.distribution = distributions[distribution_id],
                                   !.items_to_distribute =
                                      distributions[distribution_id].items]]

\* one store operation of update_inventory (lines 88-155): the get_item of the
\* donation of the next item, or the update_item that writes the items list
\* read by that get_item back with the lowered quantity
complete_update_inventory(r) ==
  LET q == inflight[r]
      item == Head(q.items_to_distribute)
      next_item == [q EXCEPT !.items_to_distribute = Tail(@), !.donation_items = <<>>,
                             !.pc = "update_inventory"]
  IN
  /\ q.op = "complete_distribution"
  /\ UNCHANGED <<warm, context, clock, inventory, audit, donationItems, distributions,
                 mirrors, donors, recipients, userVars, last, resp, ops>>
  /\ q.pc \in {"update_inventory", "update_donation"}
  /\ IF q.pc = "update_inventory"
     THEN
        /\ UNCHANGED <<donations, stamps>>
        /\ IF q.items_to_distribute = <<>>
           THEN inflight' = [inflight EXCEPT ![r].pc = "update_metadata"]
           ELSE IF item.donation_id \notin DOMAIN donations
           THEN inflight' = [inflight EXCEPT ![r] = next_item]
           ELSE IF item.item_index >= Len(donations[item.donation_id].items)
           THEN inflight' = [inflight EXCEPT ![r] = next_item]
           ELSE inflight' = [inflight EXCEPT
                               ![r].donation_items = donations[item.donation_id].items,
                               ![r].pc = "update_donation"]
     ELSE
        /\ LET current_quantity == q.donation_items[item.item_index + 1].quantity
               new_quantity == Max(0, current_quantity - item.quantity)
               donation_items == [q.donation_items EXCEPT
                                    ![item.item_index + 1].quantity = new_quantity]
           IN /\ donations' = [donations EXCEPT ![item.donation_id].items = donation_items]
              /\ stamps' = update_item(stamps, ItemKey("DONATION", item.donation_id, 0),
                                       clock)
              /\ inflight' = [inflight EXCEPT
                                ![r] = [next_item EXCEPT
                                          !.adjustments =
                                             Append(@, [donation_id |-> item.donation_id,
                                                        item_index |-> item.item_index,
                                                        new_quantity |-> new_quantity])]]

\* db.update_item of the METADATA record (lines 223-241): it sets the three
\* attributes on the record as it is stored at that moment, without a condition
complete_update_metadata(r, now) ==
  LET q == inflight[r]
      updated_distribution ==
        [Stored(distributions, q.distribution_id, EmptyMeta) EXCEPT
           !.status = "completed", !.completed_at = now, !.completed_by = q.caller.sub]
  IN
  /\ q.op = "complete_distribution"
  /\ q.pc = "update_metadata"
  /\ clock' = now
  /\ distributions' = Put(distributions, q.distribution_id, updated_distribution)
  /\ stamps' = update_item(stamps, ItemKey("DISTRIBUTION", q.distribution_id, 0), now)
  /\ inflight' = [inflight EXCEPT ![r].pc = "update_mirror", ![r].completed_at = now]
  /\ UNCHANGED <<warm, context, inventory, audit, donations, donationItems, mirrors,
                 donors, recipients, userVars, last, resp, ops>>

\* db.update_item of the RECIPIENT#<recipient> record and the response (lines
\* 243-271)
complete_update_mirror(r) ==
  LET q == inflight[r]
      mkey == <<q.distribution_id, q.distribution.recipient_id>>
  IN
  /\ q.op = "complete_distribution"
  /\ q.pc = "update_mirror"
  /\ mirrors' = Put(mirrors, mkey,
                    [Stored(mirrors, mkey, EmptyMirror) EXCEPT !.status = "completed"])
  /\ stamps' = update_item(stamps, ItemKey("DISTRIBUTION#RECIPIENT", q.distribution_id,
                                           mkey[2]), q.completed_at)
  /\ Answer(r, Success(200, [distribution_id |-> q.distribution_id,
                             status |-> "completed",
                             completed_at |-> q.completed_at,
                             inventory_adjustments |-> q.adjustments]))
  /\ UNCHANGED <<warm, context, clock, inventory, audit, donations, donationItems,
                 distributions, donors, recipients, userVars, last, resp, ops>>

CompleteGetItem ==
  \E r \in Requests, distribution_id \in DistributionIds :
    complete_get_item(r, distribution_id)

CompleteUpdateInventory == \E r \in Requests : complete_update_inventory(r)

CompleteUpdateMetadata == \E r \in Requests, now \in Nows : complete_update_metadata(r, now)

CompleteUpdateMirror == \E r \in Requests : complete_update_mirror(r)

\* completions of a distribution handled concurrently, over donations and
\* distributions created by default requests
NextConcurrentCompletion ==
  \/ CreateDonationPlain
  \/ CreateDistributionPlain
  \/ CompleteGetItem
  \/ CompleteUpdateInventory
  \/ CompleteUpdateMetadata
  \/ CompleteUpdateMirror

SpecConcurrentCompletion == Init /\ [][NextConcurrentCompletion]_vars

\* the completions of the distribution that were answered with success
SucceededCompletions(distribution_id) ==
  {r \in Requests : /\ inflight[r].op = "complete_distribution"
                    /\ inflight[r].pc = "done"
                    /\ inflight[r].distribution_id = distribution_id
                    /\ inflight[r].resp.status = 200}

\* the completions of the distribution that wrote a lowered quantity
DecrementingCompletions(distribution_id) ==
  {r \in Requests : /\ inflight[r].op = "complete_distribution"
                    /\ inflight[r].distribution_id = distribution_id
                    /\ inflight[r].adjustments # <<>>}

\* C19: of the complete_distribution requests for one distribution whose store
\* reads and writes interleave, at most one is answered with success and at
\* most one writes the lowered quantities.
C19_AtMostOneCompletion ==
  \A distribution_id \in DistributionIds :
    /\ Cardinality(SucceededCompletions(distribution_id)) <= 1
    /\ Cardinality(DecrementingCompletions(distribution_id)) <= 1

\* ----------------------------------------- adjust_inventory, step by step
\* Every store operation of the handler is a step of its own. The requests
\* come from a DonorCoordinator and name the item of the default request.

\* db.query for the item by category and name, the reading of the clock and
\* the quantity computed from the item that was read (lines 108-126, 165)
adjust_query(r, quantity_change, now) ==
  LET existing == ExistingItems(AdjustDefault.category, AdjustDefault.item_name)
      existed == existing # {}
      current_quantity == IF existed THEN FirstItem(existing).quantity ELSE 0
  IN
  /\ inflight[r] = Idle
  /\ clock' = now
  /\ inflight' = [inflight EXCEPT ![r] =
       [op |-> "adjust_inventory", pc |-> "write",
        first |-> \A o \in Requests : inflight[o] = Idle,
        quantity_change |-> quantity_change, now |-> now, existed |-> existed,
        item_id |-> IF existed THEN FirstItem(existing).item_id ELSE 0,
        current_quantity |-> current_quantity,
        new_quantity |-> IF existed
                         THEN AdjustedQuantity(current_quantity, quantity_change)
                         ELSE InitialQuantity(quantity_change),
        resp |-> ErrorResp(0, "NONE")]]
  /\ UNCHANGED <<warm, context, storeVars, last, resp, ops>>

\* db.update_item of the item that was read, with the quantity computed from
\* that reading (lines 129-137), or db.put_item of a new item (lines 163-187)
adjust_write(r) ==
  LET q == inflight[r] IN
  /\ q.op = "adjust_inventory"
  /\ q.pc = "write"
  /\ q.new_quantity <= MaxQty
  /\ IF q.existed
     THEN /\ inventory' = {IF i.item_id = q.item_id
                           THEN [i EXCEPT !.quantity = q.new_quantity] ELSE i :
                           i \in inventory}
          /\ stamps' = update_item(stamps, ItemKey("INVENTORY", q.item_id, 0), q.now)
          /\ inflight' = [inflight EXCEPT ![r].pc = "audit"]
     ELSE /\ Cardinality(inventory) < MaxItems
          /\ inventory' = inventory \cup
                            {[item_id |-> FreshItemId, category |-> AdjustDefault.category,
                              name |-> AdjustDefault.item_name,
                              quantity |-> q.new_quantity]}
          /\ stamps' = put_item(stamps, ItemKey("INVENTORY", FreshItemId, 0), q.now, q.now)
          /\ inflight' = [inflight EXCEPT ![r].pc = "audit", ![r].item_id = FreshItemId]
  /\ UNCHANGED <<warm, context, clock, audit, donations, donationItems, distributions,
                 mirrors, donors, recipients, userVars, last, resp, ops>>

\* db.put_item of the audit entry and the response (lines 201-232)
adjust_put_audit(r) ==
  LET q == inflight[r] IN
  /\ q.op = "adjust_inventory"
  /\ q.pc = "audit"
  /\ audit' = PutAudit([item_id |-> q.item_id, ts |-> q.now])
  /\ stamps' = put_item(stamps, ItemKey("AUDIT", q.item_id, q.now), 0, q.now)
  /\ Answer(r, Success(200, [item_id |-> q.item_id, quantity |-> q.new_quantity]))
  /\ UNCHANGED <<warm, context, clock, inventory, donations, donationItems, distributions,
                 mirrors, donors, recipients, userVars, last, resp, ops>>

\* the default adjustment, handled while no other request is being handled
AdjustInventoryAlone ==
  \E now \in Nows :
    /\ \A r \in Requests : inflight[r] = Idle
    /\ adjust_inventory(User("DonorCoordinator"), AdjustDefault, now)

AdjustQuery ==
  \E r \in Requests, quantity_change \in (0 - MaxChange) .. MaxChange, now \in Nows :
    adjust_query(r, quantity_change, now)

AdjustWrite == \E r \in Requests : adjust_write(r)

AdjustPutAudit == \E r \in Requests : adjust_put_audit(r)

\* adjustments of one item handled concurrently
NextConcurrentAdjust ==
  \/ AdjustInventoryAlone
  \/ AdjustQuery
  \/ AdjustWrite
  \/ AdjustPutAudit

SpecConcurrentAdjust == Init /\ [][NextConcurrentAdjust]_vars

\* the quantities the adjustments of the requests S lead to from quantity q
\* when they are applied one after another, in every order
RECURSIVE SequentialOutcomes(_, _)
SequentialOutcomes(q, S) ==
  IF S = {} THEN {q}
  ELSE UNION {SequentialOutcomes(AdjustedQuantity(q, inflight[r].quantity_change),
                                 S \ {r}) : r \in S}

\* the adjust_inventory requests that have arrived
ArrivedAdjustments == {r \in Requests : inflight[r].op = "adjust_inventory"}

\* C20: once the concurrent adjust_inventory requests on an existing item are
\* all answered, the stored quantity of the item is one that applying their
\* adjustments one after another, in some order, to the quantity the item had
\* when the first of them arrived leads to.
C20_NoAdjustmentLost ==
  (/\ ArrivedAdjustments # {}
   /\ \A r \in ArrivedAdjustments : inflight[r].pc = "done" /\ inflight[r].existed)
  => \A r \in ArrivedAdjustments :
       inflight[r].first =>
         \A i \in inventory :
           i.item_id = inflight[r].item_id =>
             i.quantity \in SequentialOutcomes(inflight[r].current_quantity,
                                               ArrivedAdjustments)

\* C21: the store holds at most one inventory item record for each pair of
\* category and name, whatever adjust_inventory requests were handled and
\* however their store operations interleaved.
C21_OneItemPerCategoryAndName ==
  \A i, j \in inventory :
    (i.category = j.category /\ i.name = j.name) => i = j

\* -------------------------------------- update_distribution, step by step
\* db.update_item of the METADATA record (lines 96-111), for the request that
\* sets the status to scheduled or the date
update_update_metadata(r, distribution_id, body) ==
  LET caller == User("DistributionManager")
      updated_distribution ==
        MetaAfterUpdate(Stored(distributions, distribution_id, EmptyMeta), body)
  IN
  /\ inflight[r] = Idle
  /\ validate_update_input(body)
  /\ body.distribution_date # 0 \/ body.status # NULL
  /\ set_context("update_distribution", caller, TRUE)
  /\ distributions' = Put(distributions, distribution_id, updated_distribution)
  /\ stamps' = update_item(stamps, ItemKey("DISTRIBUTION", distribution_id, 0), clock)
  /\ inflight' = [inflight EXCEPT ![r] =
       [op |-> "update_distribution", pc |-> "update_mirror",
        distribution_id |-> distribution_id, body |-> body,
        recipient_id |-> updated_distribution.recipient_id,
        status |-> updated_distribution.status, resp |-> ErrorResp(0, "NONE")]]
  /\ UNCHANGED <<clock, inventory, audit, donations, donationItems, mirrors, donors,
                 recipients, userVars, last, resp, ops>>

\* db.update_item of the RECIPIENT#<recipient> record of the recipient the
\* METADATA update returned, and the response (lines 113-148)
update_update_mirror(r) ==
  LET q == inflight[r]
      mkey == <<q.distribution_id, q.recipient_id>>
      mirror == Stored(mirrors, mkey, EmptyMirror)
      newMirror ==
        [mirror EXCEPT
           !.distribution_date = IF q.body.distribution_date # 0
                                 THEN q.body.distribution_date ELSE @,
           !.gsi1sk = IF q.body.distribution_date # 0 THEN q.body.distribution_date ELSE @,
           !.gsi2sk = IF q.body.distribution_date # 0 THEN q.body.distribution_date ELSE @,
           !.status = IF q.body.status # NULL THEN q.body.status ELSE @]
  IN
  /\ q.op = "update_distribution"
  /\ q.pc = "update_mirror"
  /\ mirrors' = Put(mirrors, mkey, newMirror)
  /\ stamps' = update_item(stamps, ItemKey("DISTRIBUTION#RECIPIENT", q.distribution_id,
                                           mkey[2]), clock)
  /\ Answer(r, Success(200, [distribution_id |-> q.distribution_id, status |-> q.status]))
  /\ UNCHANGED <<warm, context, clock, inventory, audit, donations, donationItems,
                 distributions, donors, recipients, userVars, last, resp, ops>>

UpdateUpdateMetadata ==
  \E r \in Requests, distribution_id \in DistributionIds,
     body \in {UpdateDistributionDefault,
               [UpdateDistributionDefault EXCEPT !.status = NULL,
                                                 !.distribution_date = MaxDate]} :
    update_update_metadata(r, distribution_id, body)

UpdateUpdateMirror == \E r \in Requests : update_update_mirror(r)

\* updates and completions of a distribution handled concurrently
NextConcurrentDistribution ==
  \/ CreateDistributionPlain
  \/ CompleteGetItem
  \/ CompleteUpdateInventory
  \/ CompleteUpdateMetadata
  \/ CompleteUpdateMirror
  \/ UpdateUpdateMetadata
  \/ UpdateUpdateMirror

SpecConcurrentDistribution == Init /\ [][NextConcurrentDistribution]_vars

\* no request is being handled
Quiescent == \A r \in Requests : inflight[r].pc \in {"idle", "done"}

\* the mirror record of the distribution, where one is stored, agrees with its
\* METADATA record
MirrorAgrees(distribution_id) ==
  LET meta == distributions[distribution_id]
      mkey == <<distribution_id, meta.recipient_id>>
  IN mkey \in DOMAIN mirrors =>
       /\ mirrors[mkey].status = meta.status
       /\ mirrors[mkey].distribution_date = meta.distribution_date

\* C22: whenever no request is being handled, the RECIPIENT#<recipient> record
\* of every stored distribution has the status and the distribution_date of
\* its METADATA record.
C22_MirrorAgreesWithMetadata ==
  Quiescent => \A distribution_id \in DOMAIN distributions : MirrorAgrees(distribution_id)

\* C23: in every state the METADATA record of a distribution has completed_at
\* and completed_by set exactly when its status is completed, and carries
\* actual_items or completion_notes only when its status is completed.
C23_CompletionFieldsOnlyWhenCompleted ==
  \A distribution_id \in DOMAIN distributions :
    LET meta == distributions[distribution_id] IN
    /\ (meta.completed_at # 0) <=> (meta.status = "completed")
    /\ (meta.completed_by # NULL) <=> (meta.status = "completed")
    /\ (meta.actual_items.present \/ meta.completion_notes) => meta.status = "completed"

\* C24: an update_distribution request that issues update_item for a
\* distribution id without a stored record is answered 404 NOT_FOUND and
\* creates no record.
C24_UpdateOfAbsentIs404 ==
  [][(/\ last'.op = "update_distribution"
      /\ last'.distribution_id \notin DOMAIN distributions
      /\ ops' # <<>>)
     => /\ resp'.status = 404
        /\ resp'.code = "NOT_FOUND"
        /\ distributions' = distributions
        /\ mirrors' = mirrors]_vars

\* the number of get_item calls among the store operations of an invocation
RECURSIVE ReadsIssued(_)
ReadsIssued(o) ==
  IF o = <<>> THEN 0
  ELSE (IF Head(o) = "get_item" THEN 1 ELSE 0) + ReadsIssued(Tail(o))

\* C25: a completion that carries actual_items, an empty list included, and
\* is answered 200 works off exactly the listed items: update_inventory reads
\* one donation for each listed item and none for the planned items, and the
\* donation records are the ones update_inventory leaves for the listed items.
C25_ActualItemsOverridePlanned ==
  [][(/\ last'.op = "complete_distribution"
      /\ resp'.status = 200
      /\ last'.body.actual_items.present)
     => /\ ReadsIssued(ops') = 1 + Len(last'.body.actual_items.v)
        /\ donations' = update_inventory(last'.body.actual_items.v, donations, 0).donations]_vars

\* ------------------------------------------------ paging through donations
\* a donation is marked received
ReceiveDonation ==
  \E donation_id \in ListedDonationIds :
    update_donation(User("DonorCoordinator"), donation_id, UpdateDonationDefault)

\* the first request of a paging: no next_token, a page size of one or two
ListDonationsFirst ==
  \E donor_id \in {<<>>, <<"x">>}, status \in {NULL, "pending", "received"},
     page_size \in 1 .. MaxListed :
    list_donations(User("DonorCoordinator"),
                   [ListDonationsDefault EXCEPT !.donor_id = donor_id, !.status = status,
                                                !.page_size = IntParam(page_size)],
                   TRUE)

NextPaging ==
  \/ CreateDonationFor
  \/ ReceiveDonation
  \/ ListDonationsFirst
  \/ ListDonationsNext

SpecPaging == Init /\ [][NextPaging]_vars

\* the donations that match the donor and date parameters, latest first
MatchingDonations(params) ==
  Reverse(SortAscending({e \in DonationEntries(params.donor_id) :
                           KeySatisfies(DateCondition(params.start_date, params.end_date),
                                        e.sk)}))

\* the place of the entry with the key a token encodes; 0 for no token and
\* for a token of no entry
TokenPosition(ordered, token) ==
  IF token = <<>> THEN 0
  ELSE LET key == decode_pagination_token(token)
           at == {k \in 1 .. Len(ordered) : ordered[k].key = key}
       IN IF at = {} THEN 0 ELSE CHOOSE k \in at : TRUE

\* the page holds, in order, the donations of the places start + 1 .. stop
\* that have the status asked for
PageIsSegment(ordered, start, stop, status, items) ==
  LET segment == SubSeq(ordered, start + 1, stop)
      wanted == IF status = NULL THEN segment ELSE SelectSeq2(segment, status)
  IN items = [k \in 1 .. Len(wanted) |-> wanted[k].item]

\* the response continues the paging of the request: a next_token names a
\* donation after the one the request resumed from, and the page holds the
\* matching donations between the two, latest first
PageContinues(ordered, params, page) ==
  /\ (params.next_token # <<>> => TokenPosition(ordered, params.next_token) > 0)
  /\ (page.pagination.next_token # <<>> =>
        TokenPosition(ordered, page.pagination.next_token)
          > TokenPosition(ordered, params.next_token))
  /\ PageIsSegment(ordered, TokenPosition(ordered, params.next_token),
                   IF page.pagination.next_token = <<>> THEN Len(ordered)
                   ELSE TokenPosition(ordered, page.pagination.next_token),
                   params.status, page.items)
  /\ \A k \in 1 .. Len(page.items) - 1 :
       TextLeq(page.items[k + 1].created_at, page.items[k].created_at)

\* C26: every 200 answer of list_donations, to a first request or to one that
\* passes the next_token of the answer before, holds exactly the matching
\* donations between the donation the request resumed after and the donation
\* its own next_token names (or the end of the list when it carries none), in
\* descending date order, and its next_token lies strictly further on. The
\* pages of a paging therefore return every matching donation once, and the
\* paging ends after at most one request more than there are donations.
C26_ForwardPagingComplete ==
  [][(last'.op = "list_donations" /\ resp'.status = 200)
     => PageContinues(MatchingDonations(last'.params), last'.params, resp'.data)]_vars

\* the third request of a paging through two donations with a page size of
\* one: the token of the second page was passed, the page is empty and
\* carries no next_token
C26_Witness ==
  /\ last.op = "list_donations"
  /\ last.params.next_token # <<>>
  /\ last.params.page_size = IntParam(1)
  /\ last.params.donor_id = <<>>
  /\ last.params.status = NULL
  /\ Cardinality(DOMAIN donations) = MaxListed
  /\ resp.status = 200
  /\ resp.data.items = <<>>
  /\ resp.data.pagination.next_token = <<>>

\* the number of stored donations that match the parameters of a listing
MatchingCount(params) ==
  Len(IF params.status = NULL THEN MatchingDonations(params)
      ELSE SelectSeq2(MatchingDonations(params), params.status))

\* C27: the total_count of every 200 answer of list_donations is the number of
\* stored donations that match the filters of the request, whatever page and
\* page_size were asked for, and total_pages is that number divided by the
\* page size, rounded up.
C27_TotalCountIsMatchCount ==
  [][(last'.op = "list_donations" /\ resp'.status = 200)
     => /\ resp'.data.pagination.total_count = MatchingCount(last'.params)
        /\ resp'.data.pagination.total_pages =
             (MatchingCount(last'.params) + resp'.data.pagination.page_size - 1)
               \div resp'.data.pagination.page_size]_vars

\* ------------------------------------------------------ get_donor_donations
\* the text of a donor's id, as a request body and a path carry it
DonorIdText(donor_id) == IF donor_id = 1 THEN <<"x">> ELSE <<"y">>

\* the entries of the index over GSI2PK and GSI2SK: create_donation writes
\* GSI2PK = "DONATIONS" and GSI2SK = now on every donation
Gsi2Entries ==
  {[pk |-> T_DONATIONS,
    sk |-> IsoFormat(donations[d].gsi1sk),
    id |-> d,
    key |-> IndexKey(T_GSI2PK, T_DONATIONS, T_GSI2SK, IsoFormat(donations[d].gsi1sk),
                     T_DONATION \o NumText(d), T_METADATA),
    item |-> [donation_id |-> d, donor_id |-> donations[d].donor_id,
              status |-> donations[d].status, created_at |-> IsoFormat(donations[d].gsi1sk)]] :
     d \in DOMAIN donations}

\* Key("GSI2PK").eq(f"DONOR#{donor_id}") on that index; a date filter reads
\* the attribute donation_date, which no donation carries
DonorDonationEntries(donor_id, start_date, end_date) ==
  {e \in Gsi2Entries : /\ e.pk = T_DONOR \o Text(DonorIdText(donor_id))
                       /\ start_date = 0
                       /\ end_date = 0}

\* the path parameter is a donor's id; 0 is a missing one
get_donor_donations(caller, donor_id, params) ==
  LET gate == Gate(caller, "DonorCoordinator")
      page == ParseInt(params.page, 1)
      page_size == ParseInt(params.page_size, DEFAULT_PAGE_SIZE)
      the_page == IF page.v < 1 THEN 1 ELSE page.v
      the_size == IF page_size.v < 1 \/ page_size.v > MAX_PAGE_SIZE
                  THEN DEFAULT_PAGE_SIZE ELSE page_size.v
      has_token == params.next_token # <<>>
      exclusive_start_key ==
        IF has_token THEN decode_pagination_token(params.next_token) ELSE NullVal
      req == [op |-> "get_donor_donations", caller |-> caller, donor_id |-> donor_id,
              params |-> params]
      finish(r, o) == /\ resp' = r
                      /\ ops' = o
  IN
  /\ last' = req
  /\ UNCHANGED procVars
  /\ UNCHANGED <<clock, invVars, donVars, distVars, dirVars, stamps>>
  /\ IF gate # "pass" THEN finish(Raised("AUTHORIZATION_ERROR"), <<>>)
     ELSE IF donor_id = 0 THEN finish(ErrorResp(404, "NOT_FOUND"), <<>>)
     ELSE IF ~page.ok \/ ~page_size.ok THEN finish(ErrorResp(500, "ERROR_500"), <<>>)
     ELSE IF donor_id \notin DOMAIN donors
       THEN finish(ErrorResp(404, "NOT_FOUND"), <<"get_item">>)
     ELSE IF has_token /\ exclusive_start_key = NullVal
       THEN finish(ErrorResp(400, "VALIDATION_ERROR"), <<"get_item">>)
     ELSE finish(QueryResponse(Query(DonorDonationEntries(donor_id, params.start_date,
                                                          params.end_date),
                                     DateCondition(0, 0), NULL, the_size,
                                     exclusive_start_key, FALSE, FALSE),
                               the_page, the_size),
                 <<"get_item", "query">>)

\* a donor with the default profile
CreateDonorPlain ==
  \E caller \in Callers :
    create_donor(caller, DonorDefault, FreshId(DonorIds, DOMAIN donors))

\* a donation with the id of a donor, stored or not, as its donor_id
CreateDonationOfDonor ==
  \E donor_id \in DonorIds, now \in Nows :
    create_donation(User("DonorCoordinator"),
                    [DonationDefault EXCEPT !.donor_id = DonorIdText(donor_id)],
                    now, FreshId(ListedDonationIds, DOMAIN donations))

GetDonorDonations ==
  \E caller \in Callers, donor_id \in 0 .. MaxDonors + 1,
     params \in {ListDonationsDefault,
                 [ListDonationsDefault EXCEPT !.page = IntParam(0),
                                              !.page_size = IntParam(MAX_PAGE_SIZE + 1)],
                 [ListDonationsDefault EXCEPT !.page_size = BadParam],
                 [ListDonationsDefault EXCEPT !.next_token = <<78, 81, 61>>]} :
    get_donor_donations(caller, donor_id, params)

NextDonorDonations ==
  \/ CreateDonorPlain
  \/ CreateDonationOfDonor
  \/ GetDonorDonations

SpecDonorDonations == Init /\ [][NextDonorDonations]_vars

\* the ids of the donations a page returns
ReturnedDonations(response) ==
  {response.data.items[k].donation_id : k \in 1 .. Len(response.data.items)}

\* C28: a request for the donations of a stored donor, with no date filter,
\* no token and a page size no smaller than the number of stored donations,
\* is answered 200 with every stored donation whose donor_id is that donor's
\* id.
C28_DonorDonationsReturned ==
  [][(/\ last'.op = "get_donor_donations"
      /\ Gate(last'.caller, "DonorCoordinator") = "pass"
      /\ last'.donor_id \in DOMAIN donors
      /\ last'.params.page = NoParam
      /\ last'.params.page_size = NoParam
      /\ last'.params.next_token = <<>>)
     => /\ resp'.status = 200
        /\ \A d \in DOMAIN donations :
             donations[d].donor_id = DonorIdText(last'.donor_id)
             => d \in ReturnedDonations(resp')]_vars

\* ------------------------------------------------------------- create_user
MaxUsers == 2        \* users the identity provider may create

UserSubs == 1 .. MaxUsers

VALID_ROLES == {"Admin", "DonorCoordinator", "DistributionManager", "Volunteer", "ReadOnly"}

\* logger.warning(message, error=e) puts the exception itself into the log
\* entry, and json.dumps of the entry raises TypeError: the handler is left
\* by that exception instead of returning the envelope of e
WarningWithError == Raised("TypeError")

\* faults names what each outside call of the invocation does: "none" (it
\* succeeds), "client_error" (botocore ClientError) or "other" (any other
\* exception, such as a connection that fails); admin_delete_user succeeds
\* whenever it is called; the requests carry no phone
create_user(caller, body, now, sub, faults) ==
  LET req == [op |-> "create_user", caller |-> caller, body |-> body, faults |-> faults]
      gate == Gate(caller, "Admin")
      email == validate_email(body.email)
      given_name == validate_string(body.given_name, 1, 100)
      family_name == validate_string(body.family_name, 1, 100)
      created == [sub |-> sub, role |-> body.role, group |-> NULL]
      user_profile == [user_id |-> sub, email |-> email.value, given_name |-> given_name.value,
                       family_name |-> family_name.value, role |-> body.role,
                       enabled |-> TRUE, created_at |-> now, updated_at |-> now]
      finish(r, o, pool, table, t) == /\ resp' = r
                                      /\ ops' = o
                                      /\ cognito' = pool
                                      /\ users' = table
                                      /\ clock' = t
      reject(r) == finish(r, <<>>, cognito, users, clock)
  IN
  /\ last' = req
  /\ UNCHANGED procVars
  /\ UNCHANGED <<invVars, donVars, distVars, donors, recipients, stamps>>
  /\ IF gate # "pass" THEN reject(Raised("AUTHORIZATION_ERROR"))
     ELSE IF body.fault = "bad_json" THEN reject(ErrorResp(500, "ERROR_500"))
     ELSE IF body.fault = "missing_field" THEN reject(WarningWithError)
     ELSE IF ~email.ok \/ ~given_name.ok \/ ~family_name.ok \/ body.role \notin VALID_ROLES
       THEN reject(WarningWithError)
     ELSE IF email.value \in DOMAIN cognito
       THEN finish(WarningWithError, <<"admin_create_user">>, cognito, users, clock)
     ELSE IF faults.create = "client_error"
       THEN finish(WarningWithError, <<"admin_create_user">>, cognito, users, clock)
     ELSE IF faults.create = "other"
       THEN finish(ErrorResp(500, "ERROR_500"), <<"admin_create_user">>, cognito, users,
                   clock)
     ELSE IF faults.group = "client_error"
       THEN finish(WarningWithError,
                   <<"admin_create_user", "admin_add_user_to_group", "admin_delete_user">>,
                   cognito, users, clock)
     ELSE IF faults.group = "other"
       THEN finish(ErrorResp(500, "ERROR_500"),
                   <<"admin_create_user", "admin_add_user_to_group">>,
                   Put(cognito, email.value, created), users, clock)
     ELSE IF faults.put # "none"
       THEN finish(WarningWithError,
                   <<"admin_create_user", "admin_add_user_to_group", "put_item",
                     "admin_delete_user">>,
                   cognito, users, now)
     ELSE finish(Success(201, [k \in (DOMAIN user_profile) |-> user_profile[k]]),
                 <<"admin_create_user", "admin_add_user_to_group", "put_item">>,
                 Put(cognito, email.value, [created EXCEPT !.group = body.role]),
                 Put(users, sub, user_profile), now)

UserDefault ==
  [email |-> <<"a", "@", "b", ".", "c", "c">>, given_name |-> <<"a">>,
   family_name |-> <<"b">>, role |-> "Volunteer", fault |-> "none"]

UserBodies ==
  {[UserDefault EXCEPT !.email = e, !.role = r] :
     e \in {<<"a", "@", "b", ".", "c", "c">>, <<"A", "@", "B", ".", "c", "C">>,
            <<"b", "@", "b", ".", "c", "c">>, <<"a", "@", "b", ".", "c">>},
     r \in {"Volunteer", "Admin", "Guest"}}
  \cup {[UserDefault EXCEPT !.fault = f] : f \in {"bad_json", "missing_field"}}
  \cup {[UserDefault EXCEPT !.given_name = <<>>], [UserDefault EXCEPT !.family_name = <<>>]}

NoFaults == [create |-> "none", group |-> "none", put |-> "none"]

FaultChoices ==
  {NoFaults} \cup {[NoFaults EXCEPT !.create = f] : f \in {"client_error", "other"}}
  \cup {[NoFaults EXCEPT !.group = f] : f \in {"client_error", "other"}}
  \cup {[NoFaults EXCEPT !.put = f] : f \in {"client_error", "other"}}

CreateUser ==
  \E caller \in Callers, body \in UserBodies, now \in Nows, faults \in FaultChoices :
    /\ OnlyDefaultFrom(caller, body, UserDefault, "Admin")
    /\ caller # User("Admin") => faults = NoFaults
    /\ FreshId(UserSubs, {cognito[e].sub : e \in DOMAIN cognito}) # 0
    /\ create_user(caller, body, now,
                   FreshId(UserSubs, {cognito[e].sub : e \in DOMAIN cognito}), faults)

NextUsers ==
  \/ CreateUser

SpecUsers == Init /\ [][NextUsers]_vars

\* the user of the identity provider has a local profile, and the reverse
Mirrored ==
  /\ \A e \in DOMAIN cognito : cognito[e].sub \in DOMAIN users
  /\ \A s \in DOMAIN users : \E e \in DOMAIN cognito : cognito[e].sub = s

\* C29: when create_user does not answer 201, the identity provider holds no
\* user that the request created: after every request, each user of the
\* identity provider has a local profile record and each profile record has a
\* user of the identity provider.
C29_NoOrphan == Mirrored

\* ------------------------------------------- role gate and permission map
\* the resource and action of the handlers that require_role guards
GuardedHandlers ==
  {"create_donation", "create_distribution", "update_distribution", "complete_distribution"}

HandlerResource(op) == IF op = "create_donation" THEN "donations" ELSE "distributions"

HandlerAction(op) ==
  CASE op = "create_donation" -> "create"
    [] op = "create_distribution" -> "create"
    [] op = "update_distribution" -> "update"
    [] op = "complete_distribution" -> "complete"

\* the wrapper of require_role called the handler
Admitted(request, response) ==
  /\ request.op \in GuardedHandlers
  /\ ~(response.raised /\ response.code = "AUTHORIZATION_ERROR")

\* C30: a caller whom the role gate of a handler admits has a role to which
\* ROLE_PERMISSIONS grants the resource:action permission of that handler,
\* and a caller whose role is not in ROLE_HIERARCHY is admitted by no handler.
C30_GateAgreesWithPermissions ==
  [][Admitted(last', resp')
     => /\ last'.caller.role \in DOMAIN ROLE_HIERARCHY
        /\ has_permission(last'.caller.role, HandlerResource(last'.op),
                          HandlerAction(last'.op))]_vars

====
